---- MODULE Spec2Model ----
(***************************************************************************)
(* Verification model of the go-nms poll-dispatch-collect-alert pipeline:  *)
(* the device registry, the collector Scheduler, the Worker, the Alert     *)
(* Engine, the MikroTik client, the ZTE OLT SNMP client and the monitoring *)
(* feature.  Each component has its own specification (SpecSched,          *)
(* SpecDisp, SpecWorker, SpecAlert, SpecEval, SpecReg, SpecUptime,         *)
(* SpecConn, SpecPON, SpecONT, SpecSys, SpecOid, SpecPower, SpecSweep,     *)
(* SpecE2E, SpecMon, SpecStore, SpecMik) over its own variables; the       *)
(* variables of the other components stay unchanged.                       *)
(***************************************************************************)
EXTENDS Integers, Sequences, FiniteSets, Bags, TLC

VARIABLES
    \* ---- collector: device registry, Scheduler, cmd/collector main ----
    devices,        \* devices table, in table order: Seq of [id, enabled]
    lastId,         \* number of device ids handed out so far
    registryCalls,  \* Create, Update, Delete calls that changed the table
    listedFrom,     \* the table as the listing of the current run read it
    schedPc,        \* position of the Scheduler.Start goroutine
    tickPending,    \* a tick is buffered in ticker.C
    stopClosed,     \* Scheduler.stopChan is closed
    collExited,     \* cmd/collector main has returned (process gone)
    listing,        \* devices returned by ListDevices in the current run
    listOk,         \* the listing of the current run succeeded
    loopIdx,        \* index of the range loop over listing
    tickTasks,      \* device ids of the PollTasks published in the current run
    pubFails,       \* number of failed task publishes in the current run
    lastRunErr,     \* what the previous run logged: "", "list" or "publish"
    \* ---- worker: Worker, processTask goroutines, worker main ----
    workerPc,       \* position of the Worker.Start goroutine
    wSubscribed,    \* the nms.poll.tasks subscription is active
    wStopClosed,    \* Worker.stopChan is closed
    wExited,        \* the worker process has ended
    wDropped,       \* task payloads dropped by the callback (unmarshal error)
    wTasks,         \* processTask goroutines, in spawn order
    metricBus,      \* bag of Metrics published on nms.metrics
    \* ---- alert: Engine, notifier, alert main ----
    rules,          \* Engine.rules
    alertPc,        \* position of the Engine.Start goroutine
    aSubscribed,    \* the nms.metrics subscription is active
    aStopClosed,    \* Engine.stopChan is closed
    aExited,        \* the alert process has ended
    aDropped,       \* metric payloads dropped by the callback
    handled,        \* Metrics passed to evaluate, in order
    aDropsBefore,   \* for each handled Metric, the payloads dropped before it
    sent,           \* notifier.Send calls, in order
    \* ---- ZTE OLT client: one GetPONPortMetrics call ----
    ponPc,          \* "idle", "walking" or "done"
    ponTodo,        \* columns of walkOIDs not walked yet
    portsByIndex,   \* the accumulator map of the call
    ponResult,      \* what the call returned
    ponWalkFailed,  \* a Walk of the call returned an error
    ponRows,        \* rows of the call that the callback gave an index
    ponSeen,        \* rows of the agent's tables returned in the call
    \* ---- ZTE OLT client: one GetSystemMetrics call ----
    sysPc,          \* "idle", "walking" or "done"
    sysTodo,        \* columns of walkOIDs not walked yet
    sysMetrics,     \* the OLTSystemMetrics being filled
    sysResult,      \* what the call returned
    sysGetErr,      \* the error returned by the Get of the call, if any
    sysWalkFailed,  \* a Walk of the call returned an error
    sysWalks,       \* number of Walk calls issued by the call
    sysSeen,        \* per column: did rows come, and their greatest raw value
    sysTicks,       \* the sysUpTime of the Get reply of the call, if any
    \* ---- ZTE OLT client: one GetONTMetrics call ----
    ontPc,          \* "idle", "walking" or "done"
    ontArg,         \* the ponPortIndex argument of the call
    ontTodo,        \* columns of walkOIDs not walked yet
    ontsByKey,      \* the accumulator map of the call
    ontResult,      \* what the call returned
    ontSeen,        \* row indexes and serial octets returned in the call
    \* ---- processTask adapter selection, two tasks side by side ----
    dispTasks,      \* the two PollTasks
    dispReplies,    \* what the device at each address answers
    dispRuns,       \* adapter calls and outcome of each task
    \* ---- device registry: concurrent RegisterDevice calls ----
    regTable,       \* rows of the devices table: Seq of [id, ip]
    regCalls,       \* RegisterDevice calls, in the order they began
    \* ---- Mikrotik client: one parseRouterOSUptime call ----
    upFields,       \* the weeks, days, hours, minutes, seconds the device reports
    upText,         \* the uptime string of the /system/resource reply
    upPc,           \* "idle" or "done"
    upUptime,       \* metrics.Uptime, in seconds
    \* ---- ZTE OLT client: Connect calls ----
    connDevice,     \* ZTEOLTClient.device
    connSessions,   \* snmp.Connect calls made so far: Seq of [host, community]
    connLast,       \* the last Connect call: argument, error, and the client before it
    \* ---- alert Engine: one rule evaluated on one Metric of a worker ----
    evRule,         \* the rule of the engine
    evMetric,       \* the Metric as the worker built it
    evPc,           \* "idle" or "done"
    evSent,         \* notifier.Send calls made for the Metric
    \* ---- ZTE OLT client: one extractLastOIDIndex call ----
    oidArg,         \* the oid argument
    oidBase,        \* the baseOID argument
    oidPc,          \* "idle" or "done"
    oidIndex,       \* the index returned
    \* ---- ZTE OLT client: one optical power row through its setter ----
    powCol,         \* the column of the row
    powRaw,         \* the raw integer of the row
    powPc,          \* "idle" or "done"
    powValue,       \* the power the record reports, thousandths of a dBm
    \* ---- ZTE OLT client: one whole collection call against a fixed agent ----
    swFn,           \* the function called: "pon", "ont" or "sys"
    swResp,         \* what the agent answers to the Walk of each column
    swOrder,        \* the order in which the range over walkOIDs visited the columns
    swPc,           \* "idle" or "done"
    swResult,       \* what the call returned
    \* ---- pipeline: one task from the Worker to the Alert Engine ----
    e2eTask,        \* the PollTask: device and protocol
    e2eFetch,       \* what FetchSystemResources would return
    e2ePing,        \* what PingAdapter.Ping returns
    e2ePc,          \* "idle", "polled", "published", "lost" or "handled"
    e2eMetric,      \* the Metric built by processTask
    e2eSent,        \* notifier.Send calls of the engine
    \* ---- monitoring Scheduler: loop goroutine, Stop, PollDevice goroutines ----
    monPc,          \* the loop goroutine: "select", "collect" or "exited"
    monTodo,        \* targets of the current runCollection not yet given a goroutine
    monTick,        \* a tick is buffered in ticker.C
    monTicks,       \* ticks fired so far
    monQuit,        \* Scheduler.quit is closed
    monStopPc,      \* Stop: "idle", "waiting", "closing" or "stopped"
    monWg,          \* the counter of Scheduler.wg
    monPolls,       \* PollDevice goroutines, in spawn order
    monClosed,      \* writer.Close has been called
    monAtClose,     \* PollDevice goroutines that were running when Close was called
    \* ---- monitoring TargetStore: concurrent ReplaceAll and GetAll calls ----
    stTargets,      \* TargetStore.targets: IP -> DeviceTarget
    stWriter,       \* TargetStore.mu is held for writing
    stReaders,      \* number of read locks held on TargetStore.mu
    stCalls,        \* the calls, in the order they began
    stLast,         \* the ReplaceAll call that completed last, 0 before the first
    \* ---- MikrotikClient.GetSystemMetrics ----
    mikPc,          \* idle, ran (the reply is in), done
    mikRes,         \* reply.Re[0].Map of /system/resource/print
    mikMetrics,     \* the returned *SystemMetrics
    mikErr          \* the returned error text

schedVars == <<devices, lastId, registryCalls, listedFrom, schedPc, tickPending, stopClosed, collExited,
               listing, listOk, loopIdx, tickTasks, pubFails, lastRunErr>>

workerVars == <<workerPc, wSubscribed, wStopClosed, wExited, wDropped,
                wTasks, metricBus>>

alertVars == <<rules, alertPc, aSubscribed, aStopClosed, aExited, aDropped,
               handled, aDropsBefore, sent>>

ponVars == <<ponPc, ponTodo, portsByIndex, ponResult, ponWalkFailed, ponRows,
             ponSeen>>

sysVars == <<sysPc, sysTodo, sysMetrics, sysResult, sysGetErr,
             sysWalkFailed, sysWalks, sysSeen, sysTicks>>

ontVars == <<ontPc, ontArg, ontTodo, ontsByKey, ontResult, ontSeen>>

dispVars == <<dispTasks, dispReplies, dispRuns>>

regVars == <<regTable, regCalls>>

uptimeVars == <<upFields, upText, upPc, upUptime>>

connVars == <<connDevice, connSessions, connLast>>

evalVars == <<evRule, evMetric, evPc, evSent>>

oidVars == <<oidArg, oidBase, oidPc, oidIndex>>

powerVars == <<powCol, powRaw, powPc, powValue>>

sweepVars == <<swFn, swResp, swOrder, swPc, swResult>>

e2eVars == <<e2eTask, e2eFetch, e2ePing, e2ePc, e2eMetric, e2eSent>>

monVars == <<monPc, monTodo, monTick, monTicks, monQuit, monStopPc, monWg, monPolls, monClosed, monAtClose>>

storeVars == <<stTargets, stWriter, stReaders, stCalls, stLast>>

mikVars == <<mikPc, mikRes, mikMetrics, mikErr>>

vars == <<schedVars, workerVars, alertVars, ponVars, sysVars, ontVars,
          dispVars,
          regVars,
          uptimeVars,
          connVars,
          evalVars,
          oidVars,
          powerVars,
          sweepVars,
          e2eVars,
          monVars,
          storeVars,
          mikVars>>

\* What the actions of one component leave alone.
OthersSched == <<workerVars, alertVars, ponVars, sysVars, ontVars, dispVars,
          regVars,
          uptimeVars,
          connVars,
          evalVars,
          oidVars,
          powerVars,
          sweepVars,
          e2eVars,
          monVars,
          storeVars,
          mikVars>>
OthersWorker == <<schedVars, alertVars, ponVars, sysVars, ontVars, dispVars,
          regVars,
          uptimeVars,
          connVars,
          evalVars,
          oidVars,
          powerVars,
          sweepVars,
          e2eVars,
          monVars,
          storeVars,
          mikVars>>
OthersAlert == <<schedVars, workerVars, ponVars, sysVars, ontVars, dispVars,
          regVars,
          uptimeVars,
          connVars,
          evalVars,
          oidVars,
          powerVars,
          sweepVars,
          e2eVars,
          monVars,
          storeVars,
          mikVars>>
OthersPON == <<schedVars, workerVars, alertVars, sysVars, ontVars, dispVars,
          regVars,
          uptimeVars,
          connVars,
          evalVars,
          oidVars,
          powerVars,
          sweepVars,
          e2eVars,
          monVars,
          storeVars,
          mikVars>>
OthersSys == <<schedVars, workerVars, alertVars, ponVars, ontVars, dispVars,
          regVars,
          uptimeVars,
          connVars,
          evalVars,
          oidVars,
          powerVars,
          sweepVars,
          e2eVars,
          monVars,
          storeVars,
          mikVars>>
OthersONT == <<schedVars, workerVars, alertVars, ponVars, sysVars, dispVars,
          regVars,
          uptimeVars,
          connVars,
          evalVars,
          oidVars,
          powerVars,
          sweepVars,
          e2eVars,
          monVars,
          storeVars,
          mikVars>>
OthersDisp == <<schedVars, workerVars, alertVars, ponVars, sysVars, ontVars,
          regVars,
          uptimeVars,
          connVars,
          evalVars,
          oidVars,
          powerVars,
          sweepVars,
          e2eVars,
          monVars,
          storeVars,
          mikVars>>
OthersReg == <<schedVars, workerVars, alertVars, ponVars, sysVars, ontVars, dispVars,
          uptimeVars,
          connVars,
          evalVars,
          oidVars,
          powerVars,
          sweepVars,
          e2eVars,
          monVars,
          storeVars,
          mikVars>>
OthersUptime == <<schedVars, workerVars, alertVars, ponVars, sysVars, ontVars, dispVars, regVars,
          connVars,
          evalVars,
          oidVars,
          powerVars,
          sweepVars,
          e2eVars,
          monVars,
          storeVars,
          mikVars>>
OthersConn == <<schedVars, workerVars, alertVars, ponVars, sysVars, ontVars, dispVars, regVars, uptimeVars,
          evalVars,
          oidVars,
          powerVars,
          sweepVars,
          e2eVars,
          monVars,
          storeVars,
          mikVars>>
OthersEval == <<schedVars, workerVars, alertVars, ponVars, sysVars, ontVars, dispVars, regVars, uptimeVars, connVars,
          oidVars,
          powerVars,
          sweepVars,
          e2eVars,
          monVars,
          storeVars,
          mikVars>>
OthersOid == <<schedVars, workerVars, alertVars, ponVars, sysVars, ontVars, dispVars, regVars, uptimeVars, connVars, evalVars,
          powerVars,
          sweepVars,
          e2eVars,
          monVars,
          storeVars,
          mikVars>>
OthersPower == <<schedVars, workerVars, alertVars, ponVars, sysVars, ontVars, dispVars, regVars, uptimeVars, connVars, evalVars, oidVars,
          sweepVars,
          e2eVars,
          monVars,
          storeVars,
          mikVars>>
OthersSweep == <<schedVars, workerVars, alertVars, ponVars, sysVars, ontVars, dispVars, regVars, uptimeVars, connVars, evalVars, oidVars, powerVars,
          e2eVars,
          monVars,
          storeVars,
          mikVars>>
OthersE2E == <<schedVars, workerVars, alertVars, ponVars, sysVars, ontVars, dispVars, regVars, uptimeVars, connVars, evalVars, oidVars, powerVars, sweepVars,
          monVars,
          storeVars,
          mikVars>>
OthersMon == <<schedVars, workerVars, alertVars, ponVars, sysVars, ontVars, dispVars, regVars, uptimeVars, connVars, evalVars, oidVars, powerVars, sweepVars, e2eVars,
          storeVars,
          mikVars>>
OthersStore == <<schedVars, workerVars, alertVars, ponVars, sysVars, ontVars, dispVars, regVars, uptimeVars, connVars, evalVars, oidVars, powerVars, sweepVars, e2eVars, monVars,
          mikVars>>
OthersMik == <<schedVars, workerVars, alertVars, ponVars, sysVars, ontVars, dispVars, regVars, uptimeVars, connVars, evalVars, oidVars, powerVars, sweepVars, e2eVars, monVars, storeVars>>

(***************************************************************************)
(* Bounds                                                                  *)
(***************************************************************************)
MaxDevices == 21          \* registered devices
MaxToggleId == 2          \* devices 1..MaxToggleId may be disabled, updated, deleted
MaxRegistryCalls == 1     \* changes of the devices table in a behaviour
MaxPubFails == 1          \* failed publishes within one schedulePolls run
MaxFailId == 2            \* the publish may fail for devices 1..MaxFailId

(***************************************************************************)
(* Device registry (device_service.go, repository)                         *)
(***************************************************************************)
DefaultPageSize == 20
MaxPageSize == 100
SchedPage == 1
SchedPageSize == 1000

Min(a, b) == IF a < b THEN a ELSE b

\* deviceRepository.List: LIMIT / OFFSET over the table, applied when > 0.
RepoList(table, limit, offset) ==
    LET from == IF offset > 0 THEN offset + 1 ELSE 1
        upto == IF limit > 0 THEN Min(Len(table), from + limit - 1)
                ELSE Len(table)
    IN  SubSeq(table, from, upto)

\* deviceService.ListDevices: page and pageSize are normalised first.
ListDevices(table, page, pageSize) ==
    LET p  == IF page < 1 THEN 1 ELSE page
        ps == IF pageSize < 1 \/ pageSize > MaxPageSize
              THEN DefaultPageSize ELSE pageSize
    IN  RepoList(table, ps, (p - 1) * ps)

EnabledIds(table) == {table[i].id : i \in {j \in 1..Len(table) : table[j].enabled}}

\* The table without its rows of the given id.
WithoutRow(table, id) == SelectSeq(table, LAMBDA row : row.id # id)

\* deviceRepository.Update: Updates(device) writes the non-zero fields of the
\* struct only, so Enabled = true is written and Enabled = false is left
\* out of the statement.  The query of List has no ORDER BY: the row version
\* that the statement writes keeps its place in the table order or
\* (moved) becomes the last row.
Update(table, id, enabled, moved) ==
    LET old == CHOOSE row \in {table[i] : i \in 1..Len(table)} : row.id = id
        new == [old EXCEPT !.enabled = IF enabled THEN TRUE ELSE @]
    IN  IF moved THEN Append(WithoutRow(table, id), new)
        ELSE [i \in 1..Len(table) |->
                 IF table[i].id = id THEN new ELSE table[i]]

\* deviceRepository.Delete: Device has no DeletedAt field, the row is
\* removed from the table.
Delete(table, id) == WithoutRow(table, id)

\* The tables that the collector may find at its start: an empty registry,
\* and one short of MaxDevices devices in which the devices 1..MaxToggleId
\* are disabled.
InitialTables ==
    {<<>>,
     [i \in 1..(MaxDevices - 1) |-> [id |-> i, enabled |-> i > MaxToggleId]]}

\* deviceService.RegisterDevice, its insert (s.repo.Create): a new device is
\* created with Enabled = true.  The lookup that precedes it reads the table
\* only; the check of the IP address is modelled in SpecReg.
InsertDevice ==
    /\ registryCalls < MaxRegistryCalls
    /\ Len(devices) < MaxDevices
    /\ devices' = Append(devices, [id |-> lastId + 1, enabled |-> TRUE])
    /\ lastId' = lastId + 1
    /\ registryCalls' = registryCalls + 1
    /\ UNCHANGED <<listedFrom, schedPc, tickPending, stopClosed, collExited,
                   listing, listOk, loopIdx, tickTasks, pubFails, lastRunErr,
                   OthersSched>>

\* deviceRepository.Update of a device with the enabled flag b.
UpdateEnabled ==
    /\ registryCalls < MaxRegistryCalls
    /\ \E i \in 1..Len(devices), b \in BOOLEAN, moved \in BOOLEAN :
        /\ devices[i].id <= MaxToggleId
        /\ devices' = Update(devices, devices[i].id, b, moved)
    /\ registryCalls' = IF devices' = devices THEN registryCalls
                        ELSE registryCalls + 1
    /\ UNCHANGED <<lastId, listedFrom, schedPc, tickPending, stopClosed,
                   collExited, listing, listOk, loopIdx, tickTasks, pubFails,
                   lastRunErr, OthersSched>>

\* deviceRepository.Delete of a device.
DeleteDevice ==
    /\ registryCalls < MaxRegistryCalls
    /\ \E i \in 1..Len(devices) :
        /\ devices[i].id <= MaxToggleId
        /\ devices' = Delete(devices, devices[i].id)
    /\ registryCalls' = registryCalls + 1
    /\ UNCHANGED <<lastId, listedFrom, schedPc, tickPending, stopClosed,
                   collExited, listing, listOk, loopIdx, tickTasks, pubFails,
                   lastRunErr, OthersSched>>

(***************************************************************************)
(* Scheduler (collector/scheduler.go) and cmd/collector main               *)
(***************************************************************************)
\* time.Ticker delivers a tick into ticker.C (capacity 1; a tick that finds
\* the channel full is dropped).  The ticker is stopped when Start returns.
TickerFire ==
    /\ schedPc # "stopped"
    /\ ~collExited
    /\ ~tickPending
    /\ tickPending' = TRUE
    /\ UNCHANGED <<devices, lastId, registryCalls, listedFrom,
                   schedPc, stopClosed, collExited,
                   listing, listOk, loopIdx, tickTasks, pubFails, lastRunErr,
                   OthersSched>>

\* Scheduler.Stop, called by main on SIGINT/SIGTERM.
SchedStop ==
    /\ ~stopClosed
    /\ stopClosed' = TRUE
    /\ UNCHANGED <<devices, lastId, registryCalls, listedFrom,
                   schedPc, tickPending, collExited,
                   listing, listOk, loopIdx, tickTasks, pubFails, lastRunErr,
                   OthersSched>>

\* main returns after scheduler.Stop(): the process and its goroutines end.
CollectorExit ==
    /\ stopClosed
    /\ ~collExited
    /\ collExited' = TRUE
    /\ UNCHANGED <<devices, lastId, registryCalls, listedFrom,
                   schedPc, tickPending, stopClosed,
                   listing, listOk, loopIdx, tickTasks, pubFails, lastRunErr,
                   OthersSched>>

\* select: case <-ticker.C.  Go picks among the ready cases at random, so
\* this case may be taken while stopChan is already closed.
SelectTick ==
    /\ schedPc = "select"
    /\ ~collExited
    /\ tickPending
    /\ tickPending' = FALSE
    /\ schedPc' = "list"
    /\ UNCHANGED <<devices, lastId, registryCalls, listedFrom,
                   stopClosed, collExited,
                   listing, listOk, loopIdx, tickTasks, pubFails, lastRunErr,
                   OthersSched>>

\* select: case <-s.stopChan: Start returns.
SelectStop ==
    /\ schedPc = "select"
    /\ ~collExited
    /\ stopClosed
    /\ schedPc' = "stopped"
    /\ UNCHANGED <<devices, lastId, registryCalls, listedFrom,
                   tickPending, stopClosed, collExited,
                   listing, listOk, loopIdx, tickTasks, pubFails, lastRunErr,
                   OthersSched>>

\* schedulePolls, first part: the device listing (it may fail).
FetchDevices ==
    /\ schedPc = "list"
    /\ ~collExited
    /\ \E ok \in BOOLEAN :
        /\ listOk' = ok
        /\ listing' = IF ok THEN ListDevices(devices, SchedPage, SchedPageSize)
                      ELSE <<>>
        /\ schedPc' = IF ok THEN "loop" ELSE "ret"
    /\ loopIdx' = 1
    /\ tickTasks' = <<>>
    /\ pubFails' = 0
    /\ listedFrom' = devices
    /\ UNCHANGED <<devices, lastId, registryCalls,
                   tickPending, stopClosed, collExited, lastRunErr,
                   OthersSched>>

\* Mutant of PublishFor: the enabled flag is not looked at.
PublishFor_NoFilter(d, ok) ==
    IF ok
    THEN /\ tickTasks' = Append(tickTasks, d.id)
         /\ UNCHANGED pubFails
    ELSE /\ pubFails' = pubFails + 1
         /\ UNCHANGED tickTasks

\* The body of the range loop for one device, given the publish outcome.
PublishFor(d, ok) ==
    IF ~d.enabled
    THEN /\ UNCHANGED <<tickTasks, pubFails>>
    ELSE IF ok
    THEN /\ tickTasks' = Append(tickTasks, d.id)
         /\ UNCHANGED pubFails
    ELSE /\ pubFails' = pubFails + 1
         /\ UNCHANGED tickTasks

\* Mutant of LoopStep: a failed publish ends the range loop.
LoopStep_ReturnOnError ==
    /\ schedPc = "loop"
    /\ ~collExited
    /\ loopIdx <= Len(listing)
    /\ \E ok \in BOOLEAN :
        /\ ok \/ (/\ listing[loopIdx].enabled
                  /\ listing[loopIdx].id <= MaxFailId
                  /\ pubFails < MaxPubFails)
        /\ PublishFor(listing[loopIdx], ok)
        /\ loopIdx' = IF ok THEN loopIdx + 1 ELSE Len(listing) + 1
    /\ UNCHANGED <<devices, lastId, registryCalls, listedFrom,
                   schedPc, tickPending, stopClosed, collExited,
                   listing, listOk, lastRunErr, OthersSched>>

\* schedulePolls, one iteration of the range loop.
LoopStep ==
    /\ schedPc = "loop"
    /\ ~collExited
    /\ loopIdx <= Len(listing)
    /\ \E ok \in BOOLEAN :
        /\ ok \/ (/\ listing[loopIdx].enabled
                  /\ listing[loopIdx].id <= MaxFailId
                  /\ pubFails < MaxPubFails)
        /\ PublishFor(listing[loopIdx], ok)
    /\ loopIdx' = loopIdx + 1
    /\ UNCHANGED <<devices, lastId, registryCalls, listedFrom,
                   schedPc, tickPending, stopClosed, collExited,
                   listing, listOk, lastRunErr, OthersSched>>

\* schedulePolls returns at the end of the loop.
LoopEnd ==
    /\ schedPc = "loop"
    /\ ~collExited
    /\ loopIdx > Len(listing)
    /\ schedPc' = "ret"
    /\ UNCHANGED <<devices, lastId, registryCalls, listedFrom,
                   tickPending, stopClosed, collExited,
                   listing, listOk, loopIdx, tickTasks, pubFails, lastRunErr,
                   OthersSched>>

\* Start: back to the top of the for loop; the locals of the finished
\* schedulePolls call are gone.
LoopBack ==
    /\ schedPc = "ret"
    /\ ~collExited
    /\ schedPc' = "select"
    /\ listing' = <<>>
    /\ listOk' = FALSE
    /\ loopIdx' = 1
    /\ tickTasks' = <<>>
    /\ pubFails' = 0
    /\ lastRunErr' = IF ~listOk THEN "list"
                     ELSE IF pubFails > 0 THEN "publish" ELSE ""
    /\ listedFrom' = <<>>
    /\ UNCHANGED <<devices, lastId, registryCalls,
                   tickPending, stopClosed, collExited, OthersSched>>

SchedInitWith(table) ==
    /\ devices = table
    /\ lastId = Len(table)
    /\ registryCalls = 0
    /\ listedFrom = <<>>
    /\ schedPc = "select"
    /\ tickPending = FALSE
    /\ stopClosed = FALSE
    /\ collExited = FALSE
    /\ listing = <<>>
    /\ listOk = FALSE
    /\ loopIdx = 1
    /\ tickTasks = <<>>
    /\ pubFails = 0
    /\ lastRunErr = ""

SchedInit == SchedInitWith(<<>>)

NextSched ==
    \/ InsertDevice
    \/ UpdateEnabled
    \/ DeleteDevice
    \/ TickerFire
    \/ SchedStop
    \/ CollectorExit
    \/ SelectTick
    \/ SelectStop
    \/ FetchDevices
    \/ LoopStep
    \/ LoopEnd
    \/ LoopBack

(***************************************************************************)
(* Worker (worker.go), adapters and the worker's main                      *)
(***************************************************************************)
MaxTasks == 2             \* task messages delivered to the worker

Protocols == {"mikrotik_api", "snmp", ""}
PingRttUs == {20000}      \* elapsed time of a successful ping, microseconds

\* Metric / point values are tagged: a float64 is kept in thousandths
\* (v = 1500 is 1.5), a bool as 0/1, an int or int64 as is, a string as 0.
FloatV(milli) == [t |-> "float", v |-> milli]
BoolV(b) == [t |-> "bool", v |-> IF b THEN 1 ELSE 0]
IntV(n) == [t |-> "int", v |-> n]
Int64V(n) == [t |-> "int64", v |-> n]
StrV == [t |-> "string", v |-> 0]

NoMetrics == [k \in {} |-> StrV]

\* A reply of /system/resource/print as FetchSystemResources maps it.
MikrotikMetrics ==
    [k \in {"uptime_str", "cpu_load", "free_memory", "total_memory"} |->
        CASE k = "uptime_str" -> StrV
          [] k = "cpu_load" -> FloatV(35000)
          [] k = "free_memory" -> Int64V(500)
          [] OTHER -> Int64V(1000)]

\* PingAdapter.Ping: (elapsed, true) when the command succeeds, (0, false)
\* otherwise.
PingResults == {[rtt |-> 0, ok |-> FALSE]} \cup
               {[rtt |-> r, ok |-> TRUE] : r \in PingRttUs}

\* Mutant of FetchResults: a failed fetch hands back what it had parsed.
FetchResults_KeepOnFailure == {[metrics |-> MikrotikMetrics, ok |-> FALSE],
                               [metrics |-> MikrotikMetrics, ok |-> TRUE]}

\* MikrotikAdapter.FetchSystemResources: (metrics, true) or (nil, false) when
\* the dial fails, the command fails or the reply is empty.
FetchResults == {[metrics |-> NoMetrics, ok |-> FALSE],
                 [metrics |-> MikrotikMetrics, ok |-> TRUE]}

\* Mutant of PollOutcome: the snmp protocol also goes through the fetch.
PollOutcome_SnmpFetch(protocol, fetch, ping) ==
    IF protocol \in {"mikrotik_api", "snmp"}
    THEN [rtt |-> ping.rtt, success |-> fetch.ok, metrics |-> fetch.metrics]
    ELSE [rtt |-> ping.rtt, success |-> ping.ok, metrics |-> NoMetrics]

\* processTask, adapter selection: the outcome of the poll of one task.
PollOutcome(protocol, fetch, ping) ==
    IF protocol = "mikrotik_api"
    THEN [rtt |-> ping.rtt, success |-> fetch.ok, metrics |-> fetch.metrics]
    ELSE [rtt |-> ping.rtt, success |-> ping.ok, metrics |-> NoMetrics]

\* rttMs := float64(rtt.Microseconds()) / 1000.0, in thousandths.
RttMs(rttUs) == FloatV(rttUs)

\* Mutant of MetricValues: the success value is left out of the map.
MetricValues_NoSuccess(t) ==
    [k \in {"rtt_ms"} \cup DOMAIN t.metrics |->
        IF k \in DOMAIN t.metrics THEN t.metrics[k] ELSE RttMs(t.rtt)]

\* The Values map of the Metric built by processTask.
MetricValues(t) ==
    [k \in {"rtt_ms", "success"} \cup DOMAIN t.metrics |->
        IF k \in DOMAIN t.metrics THEN t.metrics[k]
        ELSE IF k = "rtt_ms" THEN RttMs(t.rtt)
        ELSE BoolV(t.success)]

\* The fields of the device_poll point built by processTask.
PointFields(t) == {"rtt_ms", "success", "poll_duration_ms"}

\* The Metric published for goroutine i (task is the goroutine's number; it
\* stands for the DeviceID / Timestamp that tell Metrics apart).
MetricOf(i) == [task |-> i, values |-> MetricValues(wTasks[i])]

NewTask(protocol) ==
    [protocol |-> protocol, pc |-> "poll", rtt |-> 0, success |-> FALSE,
     metrics |-> NoMetrics, written |-> "no", pubCalls |-> 0, pubErrs |-> 0]

WorkerInit ==
    /\ workerPc = "start"
    /\ wSubscribed = FALSE
    /\ wStopClosed = FALSE
    /\ wExited = FALSE
    /\ wDropped = 0
    /\ wTasks = <<>>
    /\ metricBus = EmptyBag

\* Worker.Start: Subscribe; a subscription error is log.Fatalf.
WorkerSubscribe ==
    /\ workerPc = "start"
    /\ ~wExited
    /\ \E ok \in BOOLEAN :
        IF ok
        THEN /\ workerPc' = "waiting"
             /\ wSubscribed' = TRUE
             /\ UNCHANGED wExited
        ELSE /\ workerPc' = "fatal"
             /\ wExited' = TRUE
             /\ UNCHANGED wSubscribed
    /\ UNCHANGED <<wStopClosed, wDropped, wTasks, metricBus, OthersWorker>>

\* Worker.Start: <-w.stopChan returns, the deferred Unsubscribe runs.
WorkerReturn ==
    /\ workerPc = "waiting"
    /\ ~wExited
    /\ wStopClosed
    /\ workerPc' = "returned"
    /\ wSubscribed' = FALSE
    /\ UNCHANGED <<wStopClosed, wExited, wDropped, wTasks, metricBus,
                   OthersWorker>>

\* Worker.Stop, called by main on SIGINT/SIGTERM.
WorkerStop ==
    /\ ~wExited
    /\ ~wStopClosed
    /\ wStopClosed' = TRUE
    /\ UNCHANGED <<workerPc, wSubscribed, wExited, wDropped, wTasks,
                   metricBus, OthersWorker>>

\* main returns after w.Stop(): the process and its goroutines end.
WorkerExit ==
    /\ wStopClosed
    /\ ~wExited
    /\ wExited' = TRUE
    /\ UNCHANGED <<workerPc, wSubscribed, wStopClosed, wDropped, wTasks,
                   metricBus, OthersWorker>>

\* Mutant of DeliverTask: the callback runs processTask itself, so a
\* delivery waits for the goroutines before it.
DeliverTask_Inline ==
    /\ wSubscribed
    /\ ~wExited
    /\ \A j \in 1..Len(wTasks) : wTasks[j].pc = "done"
    /\ Len(wTasks) + wDropped < MaxTasks
    /\ \/ /\ wDropped' = wDropped + 1
          /\ UNCHANGED wTasks
       \/ /\ \E p \in Protocols : wTasks' = Append(wTasks, NewTask(p))
          /\ UNCHANGED wDropped
    /\ UNCHANGED <<workerPc, wSubscribed, wStopClosed, wExited, metricBus,
                   OthersWorker>>

\* The subscription callback: a payload that does not unmarshal is dropped,
\* any other starts a processTask goroutine.
DeliverTask ==
    /\ wSubscribed
    /\ ~wExited
    /\ Len(wTasks) + wDropped < MaxTasks
    /\ \/ /\ wDropped' = wDropped + 1
          /\ UNCHANGED wTasks
       \/ /\ \E p \in Protocols : wTasks' = Append(wTasks, NewTask(p))
          /\ UNCHANGED wDropped
    /\ UNCHANGED <<workerPc, wSubscribed, wStopClosed, wExited, metricBus,
                   OthersWorker>>

\* The calls of an adapter path that carry no deadline: routeros.Dial and
\* Client.Run block for as long as the peer keeps the connection open and
\* silent; the ping command is bounded by its -W 1.
Unbounded(protocol) == protocol = "mikrotik_api"

\* processTask: the adapter calls.  A peer that never answers leaves a
\* call without deadline blocked ("hung").
PollDevice(i) ==
    /\ ~wExited
    /\ wTasks[i].pc = "poll"
    /\ \E answers \in BOOLEAN, fetch \in FetchResults, ping \in PingResults :
        IF ~answers /\ Unbounded(wTasks[i].protocol)
        THEN wTasks' = [wTasks EXCEPT ![i].pc = "hung"]
        ELSE LET o == PollOutcome(wTasks[i].protocol, fetch, ping)
             IN  wTasks' = [wTasks EXCEPT ![i].pc = "write",
                                          ![i].rtt = o.rtt,
                                          ![i].success = o.success,
                                          ![i].metrics = o.metrics]
    /\ UNCHANGED <<workerPc, wSubscribed, wStopClosed, wExited, wDropped,
                   metricBus, OthersWorker>>

\* processTask: WritePoint; an error is logged only.
WritePoint(i) ==
    /\ ~wExited
    /\ wTasks[i].pc = "write"
    /\ \E ok \in BOOLEAN :
        wTasks' = [wTasks EXCEPT ![i].pc = "publish",
                                 ![i].written = IF ok THEN "ok" ELSE "err"]
    /\ UNCHANGED <<workerPc, wSubscribed, wStopClosed, wExited, wDropped,
                   metricBus, OthersWorker>>

\* Mutant of Published: no Metric for a poll that failed.
Published_OnlyOnSuccess(i, ok) ==
    IF ok /\ wTasks[i].success THEN SetToBag({MetricOf(i)}) ELSE EmptyBag

\* What one Publish call of goroutine i leaves on nms.metrics.
Published(i, ok) == IF ok THEN SetToBag({MetricOf(i)}) ELSE EmptyBag

\* processTask: Publish on nms.metrics; an error is logged only.
PublishMetric(i) ==
    /\ ~wExited
    /\ wTasks[i].pc = "publish"
    /\ \E ok \in BOOLEAN :
        /\ metricBus' = metricBus (+) Published(i, ok)
        /\ wTasks' = [wTasks EXCEPT
                        ![i].pc = "done",
                        ![i].pubCalls = wTasks[i].pubCalls + 1,
                        ![i].pubErrs = wTasks[i].pubErrs + IF ok THEN 0 ELSE 1]
    /\ UNCHANGED <<workerPc, wSubscribed, wStopClosed, wExited, wDropped,
                   OthersWorker>>

NextWorker ==
    \/ WorkerSubscribe
    \/ WorkerReturn
    \/ WorkerStop
    \/ WorkerExit
    \/ DeliverTask
    \/ \E i \in 1..Len(wTasks) : PollDevice(i)
    \/ \E i \in 1..Len(wTasks) : WritePoint(i)
    \/ \E i \in 1..Len(wTasks) : PublishMetric(i)

(***************************************************************************)
(* Alert Engine (alert/engine.go) and the alert service's main             *)
(***************************************************************************)
MaxMetrics == 2           \* metric messages delivered to the engine

\* NewEngine: the hardcoded rules.  Thresholds are in thousandths.
BuiltinRules ==
    << [id |-> "rule-1", device_id |-> "", metric |-> "rtt_ms", op |-> ">",
        threshold |-> 100000, description |-> "High Latency (>100ms)"],
       [id |-> "rule-2", device_id |-> "", metric |-> "success", op |-> "=",
        threshold |-> 0, description |-> "Device Down"] >>

\* A rule set with a device scope, other operators and an unknown operator.
ScopedRules ==
    << [id |-> "rule-a", device_id |-> "d1", metric |-> "rtt_ms", op |-> ">=",
        threshold |-> 100000, description |-> "Latency d1"],
       [id |-> "rule-b", device_id |-> "", metric |-> "success", op |-> "<",
        threshold |-> 1000, description |-> "Down"],
       [id |-> "rule-c", device_id |-> "d2", metric |-> "rtt_ms", op |-> "<=",
        threshold |-> 0, description |-> "No RTT d2"],
       [id |-> "rule-d", device_id |-> "", metric |-> "rtt_ms", op |-> "!=",
        threshold |-> 0, description |-> "Bad operator"] >>

RuleSets == {BuiltinRules, ScopedRules}

\* Metrics as they arrive decoded from JSON: numbers are float64.
AlertDevices == {"d1", "d2"}
RttInputs == {FloatV(0), FloatV(100000), FloatV(150000), StrV}
SuccessInputs == {BoolV(TRUE), BoolV(FALSE)}

ValueMaps ==
    {[k \in {} |-> StrV]}
    \cup {[k \in {"rtt_ms"} |-> r] : r \in RttInputs}
    \cup {[k \in {"success"} |-> s] : s \in SuccessInputs}
    \cup {[k \in {"rtt_ms", "success"} |-> IF k = "rtt_ms" THEN r ELSE s] :
             r \in RttInputs, s \in SuccessInputs}

MetricInputs == [device_id : AlertDevices, values : ValueMaps]

\* Mutant of toFloat: no case for bool.
toFloat_NoBool(val) ==
    CASE val.t = "float" -> [ok |-> TRUE, f |-> val.v]
      [] val.t = "int" -> [ok |-> TRUE, f |-> val.v * 1000]
      [] OTHER -> [ok |-> FALSE, f |-> 0]

\* toFloat: float64 as is, int and bool converted, anything else refused.
toFloat(val) ==
    CASE val.t = "float" -> [ok |-> TRUE, f |-> val.v]
      [] val.t = "int" -> [ok |-> TRUE, f |-> val.v * 1000]
      [] val.t = "bool" -> [ok |-> TRUE, f |-> IF val.v = 1 THEN 1000 ELSE 0]
      [] OTHER -> [ok |-> FALSE, f |-> 0]

\* Mutant of Triggered: the switch has no case for "<=".
Triggered_NoLessEq(op, floatVal, threshold) ==
    CASE op = ">" -> floatVal > threshold
      [] op = "<" -> floatVal < threshold
      [] op = "=" -> floatVal = threshold
      [] op = ">=" -> floatVal >= threshold
      [] OTHER -> FALSE

\* The switch on rule.Operator.
Triggered(op, floatVal, threshold) ==
    CASE op = ">" -> floatVal > threshold
      [] op = "<" -> floatVal < threshold
      [] op = "=" -> floatVal = threshold
      [] op = ">=" -> floatVal >= threshold
      [] op = "<=" -> floatVal <= threshold
      [] OTHER -> FALSE

\* Mutant of EvalRule: a rule that has already alerted is not sent again.
EvalRule_Dedup(rule, metric, h) ==
    IF \E n \in 1..Len(sent) : sent[n].rule = rule.id THEN <<>>
    ELSE IF rule.device_id # "" /\ rule.device_id # metric.device_id THEN <<>>
    ELSE IF rule.metric \notin DOMAIN metric.values THEN <<>>
    ELSE LET fv == toFloat(metric.values[rule.metric])
         IN  IF fv.ok /\ Triggered(rule.op, fv.f, rule.threshold)
             THEN << [metric |-> h, rule |-> rule.id,
                      subject |-> rule.description, value |-> fv.f] >>
             ELSE <<>>

\* One iteration of the loop of evaluate: the Send calls made for one rule.
EvalRule(rule, metric, h) ==
    IF rule.device_id # "" /\ rule.device_id # metric.device_id THEN <<>>
    ELSE IF rule.metric \notin DOMAIN metric.values THEN <<>>
    ELSE LET fv == toFloat(metric.values[rule.metric])
         IN  IF ~fv.ok THEN <<>>
             ELSE IF Triggered(rule.op, fv.f, rule.threshold)
             THEN << [metric |-> h, rule |-> rule.id,
                      subject |-> rule.description, value |-> fv.f] >>
             ELSE <<>>

\* Mutant of evaluate: a rule whose value is absent ends the loop (break in
\* the place of continue).
RECURSIVE evaluate_BreakOnAbsent(_, _, _)
evaluate_BreakOnAbsent(rs, metric, h) ==
    IF rs = <<>> THEN <<>>
    ELSE IF Head(rs).metric \notin DOMAIN metric.values THEN <<>>
    ELSE EvalRule(Head(rs), metric, h)
             \o evaluate_BreakOnAbsent(Tail(rs), metric, h)

\* Engine.evaluate: the Send calls made for metric number h, rule by rule.
RECURSIVE evaluate(_, _, _)
evaluate(rs, metric, h) ==
    IF rs = <<>> THEN <<>>
    ELSE EvalRule(Head(rs), metric, h) \o evaluate(Tail(rs), metric, h)

AlertInitWith(rs) ==
    /\ rules = rs
    /\ alertPc = "start"
    /\ aSubscribed = FALSE
    /\ aStopClosed = FALSE
    /\ aExited = FALSE
    /\ aDropped = 0
    /\ handled = <<>>
    /\ aDropsBefore = <<>>
    /\ sent = <<>>

AlertInit == AlertInitWith(BuiltinRules)

\* Engine.Start: Subscribe; a subscription error is log.Fatalf.
EngineSubscribe ==
    /\ alertPc = "start"
    /\ ~aExited
    /\ \E ok \in BOOLEAN :
        IF ok
        THEN /\ alertPc' = "waiting"
             /\ aSubscribed' = TRUE
             /\ UNCHANGED aExited
        ELSE /\ alertPc' = "fatal"
             /\ aExited' = TRUE
             /\ UNCHANGED aSubscribed
    /\ UNCHANGED <<rules, aStopClosed, aDropped, handled, aDropsBefore, sent,
                   OthersAlert>>

\* Engine.Start: <-e.stopChan returns, the deferred Unsubscribe runs.
EngineReturn ==
    /\ alertPc = "waiting"
    /\ ~aExited
    /\ aStopClosed
    /\ alertPc' = "returned"
    /\ aSubscribed' = FALSE
    /\ UNCHANGED <<rules, aStopClosed, aExited, aDropped, handled,
                   aDropsBefore, sent, OthersAlert>>

\* Engine.Stop, called by main on SIGINT/SIGTERM.
EngineStop ==
    /\ ~aExited
    /\ ~aStopClosed
    /\ aStopClosed' = TRUE
    /\ UNCHANGED <<rules, alertPc, aSubscribed, aExited, aDropped, handled,
                   aDropsBefore, sent, OthersAlert>>

\* main returns after engine.Stop().
EngineExit ==
    /\ aStopClosed
    /\ ~aExited
    /\ aExited' = TRUE
    /\ UNCHANGED <<rules, alertPc, aSubscribed, aStopClosed, aDropped,
                   handled, aDropsBefore, sent, OthersAlert>>

\* Mutant of DeliverMetric: a payload that does not unmarshal ends the
\* subscription.
DeliverMetric_DropUnsubscribes ==
    /\ aSubscribed
    /\ ~aExited
    /\ Len(handled) + aDropped < MaxMetrics
    /\ \/ /\ aDropped' = aDropped + 1
          /\ aSubscribed' = FALSE
          /\ UNCHANGED <<handled, aDropsBefore, sent>>
       \/ /\ \E m \in MetricInputs :
               /\ handled' = Append(handled, m)
               /\ sent' = sent \o evaluate(rules, m, Len(handled) + 1)
          /\ aDropsBefore' = Append(aDropsBefore, aDropped)
          /\ UNCHANGED <<aDropped, aSubscribed>>
    /\ UNCHANGED <<rules, alertPc, aStopClosed, aExited, OthersAlert>>

\* The subscription callback: a payload that does not unmarshal is dropped,
\* any other is evaluated.
DeliverMetric ==
    /\ aSubscribed
    /\ ~aExited
    /\ Len(handled) + aDropped < MaxMetrics
    /\ \/ /\ aDropped' = aDropped + 1
          /\ UNCHANGED <<handled, aDropsBefore, sent>>
       \/ /\ \E m \in MetricInputs :
               /\ handled' = Append(handled, m)
               /\ sent' = sent \o evaluate(rules, m, Len(handled) + 1)
          /\ aDropsBefore' = Append(aDropsBefore, aDropped)
          /\ UNCHANGED aDropped
    /\ UNCHANGED <<rules, alertPc, aSubscribed, aStopClosed, aExited,
                   OthersAlert>>

NextAlert ==
    \/ EngineSubscribe
    \/ EngineReturn
    \/ EngineStop
    \/ EngineExit
    \/ DeliverMetric

(***************************************************************************)
(* ZTE OLT SNMP client (snmp/zte/client.go): OIDs and PDU helpers           *)
(***************************************************************************)
\* Strings that the code takes apart are sequences of characters.
OIDSysDescr ==
    <<"1",".","3",".","6",".","1",".","2",".","1",".","1",".","1",".","0">>
OIDSysUpTime ==
    <<"1",".","3",".","6",".","1",".","2",".","1",".","1",".","3",".","0">>
OIDSysName ==
    <<"1",".","3",".","6",".","1",".","2",".","1",".","1",".","5",".","0">>
OIDZTECardCPUUsage ==
    <<"1",".","3",".","6",".","1",".","4",".","1",".","3","9","0","2",".","1","0","1","5",".","2",".","1",".","1",".","3",".","1",".","9",".","1",".","1">>
OIDZTECardTemperature ==
    <<"1",".","3",".","6",".","1",".","4",".","1",".","3","9","0","2",".","1","0","1","5",".","2",".","1",".","1",".","3",".","1",".","8",".","1",".","1">>
OIDZTECardMemoryUsage ==
    <<"1",".","3",".","6",".","1",".","4",".","1",".","3","9","0","2",".","1","0","1","5",".","2",".","1",".","1",".","3",".","1",".","1","1",".","1",".","1">>
OIDZTECardMemoryTotal ==
    <<"1",".","3",".","6",".","1",".","4",".","1",".","3","9","0","2",".","1","0","1","5",".","2",".","1",".","1",".","3",".","1",".","1","9",".","1",".","1">>
OIDZTEPONPortAdminStatus ==
    <<"1",".","3",".","6",".","1",".","4",".","1",".","3","9","0","2",".","1","0","1","5",".","3",".","1",".","2",".","1",".","3">>
OIDZTEPONPortOperStatus ==
    <<"1",".","3",".","6",".","1",".","4",".","1",".","3","9","0","2",".","1","0","1","5",".","3",".","1",".","2",".","1",".","4">>
OIDZTEPONPortTxPower ==
    <<"1",".","3",".","6",".","1",".","4",".","1",".","3","9","0","2",".","1","0","1","5",".","3",".","1",".","3",".","1",".","1","2">>
OIDZTEPONPortRxPower ==
    <<"1",".","3",".","6",".","1",".","4",".","1",".","3","9","0","2",".","1","0","1","5",".","3",".","1",".","3",".","1",".","1","0">>
OIDZTEPONPortONTCount ==
    <<"1",".","3",".","6",".","1",".","4",".","1",".","3","9","0","2",".","1","0","1","5",".","3",".","1",".","3",".","1",".","1","3">>

Digits == <<"0", "1", "2", "3", "4", "5", "6", "7", "8", "9">>
DigitChars == {Digits[d] : d \in 1..10}
IsDigit(c) == c \in DigitChars
DigitVal(c) == (CHOOSE d \in 1..10 : Digits[d] = c) - 1

\* A uint64 is kept as four 16-bit limbs, least significant first; wider
\* intermediate values are longer limb sequences.
Limbs(l1, l2, l3, l4) == <<l1, l2, l3, l4>>
ZeroU64 == Limbs(0, 0, 0, 0)

\* u * m + a over a limb sequence; the result is one limb longer than u and
\* holds the carry in its last limb (m and a small enough not to overflow).
RECURSIVE MulAdd(_, _, _)
MulAdd(u, m, a) ==
    IF u = <<>> THEN <<a>>
    ELSE LET t == Head(u) * m + a
         IN  <<t % 65536>> \o MulAdd(Tail(u), m, t \div 65536)

\* a < b for limb sequences of the same length.
RECURSIVE LessLimbs(_, _)
LessLimbs(a, b) ==
    IF a = <<>> THEN FALSE
    ELSE LET n == Len(a)
         IN  IF a[n] # b[n] THEN a[n] < b[n]
             ELSE LessLimbs(SubSeq(a, 1, n - 1), SubSeq(b, 1, n - 1))

\* a - b - borrow modulo 2^(16 * Len(a)): unsigned subtraction wraps.
RECURSIVE SubLimbs(_, _, _)
SubLimbs(a, b, borrow) ==
    IF a = <<>> THEN <<>>
    ELSE LET t == Head(a) - Head(b) - borrow
         IN  <<IF t < 0 THEN t + 65536 ELSE t>>
             \o SubLimbs(Tail(a), Tail(b), IF t < 0 THEN 1 ELSE 0)

\* The limb sequence u extended with zero limbs to length n.
RECURSIVE PadLimbs(_, _)
PadLimbs(u, n) == IF Len(u) >= n THEN u ELSE PadLimbs(Append(u, 0), n)

\* num \div den and num % den for limb sequences, den # 0, by binary long
\* division over one register: its low limbs start as the numerator and end
\* as the quotient, the limbs above hold the remainder.  Each step shifts the
\* register left by one bit and, when the remainder reaches den, subtracts
\* den and sets the new quotient bit; there are 16 steps for each limb of
\* num.  The quotient is as long as num.
DivModLimbs(num, den) ==
    LET nq == Len(num)
        n  == Len(den) + 1
        d  == PadLimbs(den, n)
        steps[k \in 0..16, reg \in Seq(0..65535)] ==
            IF k = 0 THEN reg
            ELSE LET sh  == SubSeq(MulAdd(reg, 2, 0), 1, nq + n)
                     rem == SubSeq(sh, nq + 1, nq + n)
                 IN  IF LessLimbs(rem, d) THEN steps[k - 1, sh]
                     ELSE steps[k - 1, <<sh[1] + 1>> \o SubSeq(sh, 2, nq)
                                           \o SubLimbs(rem, d, 0)]
        limbs[i \in 0..nq, reg \in Seq(0..65535)] ==
            IF i = 0 THEN [quot |-> SubSeq(reg, 1, nq),
                           rem |-> SubSeq(reg, nq + 1, nq + n)]
            ELSE limbs[i - 1, steps[16, reg]]
    IN  limbs[nq, num \o PadLimbs(<<>>, n)]

\* The number of bits of n in 0..65535, and of a limb sequence.
BitLen16(n) ==
    IF n = 0 THEN 0 ELSE CHOOSE k \in 1..16 : 2^(k - 1) <= n /\ n < 2^k

RECURSIVE BitLen(_)
BitLen(u) ==
    IF u = <<>> THEN 0
    ELSE IF u[Len(u)] # 0 THEN 16 * (Len(u) - 1) + BitLen16(u[Len(u)])
    ELSE BitLen(SubSeq(u, 1, Len(u) - 1))

\* The n low limbs of u, zero limbs added when u is shorter.
FitLimbs(u, n) == [i \in 1..n |-> IF i <= Len(u) THEN u[i] ELSE 0]

\* u * 2^k.
ShiftLeft(u, k) ==
    [i \in 1..(k \div 16) |-> 0] \o MulAdd(u, 2^(k % 16), 0)

\* u \div 2^k, as long as u.
ShiftRight(u, k) ==
    LET whole == k \div 16
        part  == k % 16
        at(i) == IF i <= Len(u) THEN u[i] ELSE 0
    IN  [i \in 1..Len(u) |->
            (at(i + whole) \div 2^part)
            + (at(i + whole + 1) % 2^part) * 2^(16 - part)]

\* A float64 that is not negative is the record [m, e] standing for
\* m * 2^e: m is the 53-bit significand as four limbs, 2^52 <= m < 2^53, and
\* e the exponent of its last bit; zero is [0, 0].  The values met here lie
\* between 2^-64 and 2^71, far from the subnormal numbers and from +Inf.
FloatZero == [m |-> ZeroU64, e |-> 0]

\* The float64 nearest to n * 2^e, ties to the even significand (the IEEE 754
\* default rounding, which the conversion and the arithmetic of Go use).
\* sticky tells that the exact value lies above n * 2^e, by less than 2^e.
RoundFloat(n, sticky, e) ==
    LET bits == BitLen(n)
        k    == bits - 53
    IN  IF bits = 0 THEN FloatZero
        ELSE IF k <= 0
        THEN [m |-> FitLimbs(ShiftLeft(n, 0 - k), 4), e |-> e + k]
        ELSE LET q    == ShiftRight(n, k)
                 low  == ShiftRight(n, k - 1)
                 half == low[1] % 2 = 1
                 rest == sticky
                         \/ FitLimbs(ShiftLeft(low, k - 1), Len(n)) # n
                 r    == IF half /\ (rest \/ q[1] % 2 = 1)
                         THEN MulAdd(q, 1, 1) ELSE q
             IN  IF BitLen(r) = 54
                 THEN [m |-> Limbs(0, 0, 0, 16), e |-> e + k + 1]
                 ELSE [m |-> FitLimbs(r, 4), e |-> e + k]

\* float64(u) of a uint64.
FloatOfUint64(u) == RoundFloat(u, FALSE, 0)

\* a / b in float64, b # 0: the quotient of the significands to 54 or 55
\* bits with the remainder as the sticky bit, rounded once.
DivFloat(a, b) ==
    IF a = FloatZero THEN FloatZero
    ELSE LET d == DivModLimbs(ShiftLeft(a.m, 54), b.m)
         IN  RoundFloat(d.quot, BitLen(d.rem) # 0, a.e - b.e - 54)

\* a * c in float64 for a whole number c below 2^15.
MulFloat(a, c) == RoundFloat(MulAdd(a.m, c, 0), FALSE, a.e)

\* a < b for float64 values that are not negative.
LessFloat(a, b) ==
    IF b = FloatZero THEN FALSE
    ELSE IF a = FloatZero THEN TRUE
    ELSE a.e < b.e \/ (a.e = b.e /\ LessLimbs(a.m, b.m))

\* strconv.ParseUint(s, 10, 64) digit by digit: ok is FALSE for the empty
\* string, for a character that is no decimal digit (a sign included) and
\* for a value above 2^64 - 1.  The first nine digits, whose value is below
\* 2^31, are accumulated in one integer, the digits after them over limbs.
ParseUint(str) ==
    LET low[i \in 0..9] ==
            IF i = 0 THEN 0 ELSE low[i - 1] * 10 + DigitVal(str[i])
        k == IF Len(str) < 9 THEN Len(str) ELSE 9
        v == low[k]
        from[i \in 1..(Len(str) + 1), acc \in Seq(0..65535)] ==
            IF i > Len(str) THEN [val |-> acc, ok |-> TRUE]
            ELSE LET t == MulAdd(acc, 10, DigitVal(str[i]))
                 IN  IF t[5] # 0 THEN [val |-> ZeroU64, ok |-> FALSE]
                     ELSE from[i + 1, SubSeq(t, 1, 4)]
    IN  IF str = <<>> \/ \E i \in 1..Len(str) : ~IsDigit(str[i])
        THEN [val |-> ZeroU64, ok |-> FALSE]
        ELSE from[k + 1, Limbs(v % 65536, v \div 65536, 0, 0)]

\* Decimal rendering of n >= 0.
RECURSIVE IntToChars(_)
IntToChars(n) ==
    IF n < 10 THEN <<Digits[n + 1]>>
    ELSE IntToChars(n \div 10) \o <<Digits[(n % 10) + 1]>>

HasPrefix(str, prefix) ==
    /\ Len(str) >= Len(prefix)
    /\ SubSeq(str, 1, Len(prefix)) = prefix

\* strings.TrimPrefix
TrimPrefix(str, prefix) ==
    IF HasPrefix(str, prefix) THEN SubSeq(str, Len(prefix) + 1, Len(str))
    ELSE str

\* The last element of strings.Split(str, "."): what follows the last dot.
RECURSIVE LastPart(_)
LastPart(str) ==
    IF \A i \in 1..Len(str) : str[i] # "." THEN str
    ELSE LastPart(Tail(str))

\* White space that Sscanf skips before a number: the runes of fmt's isSpace
\* table except the newline, which is not skipped but ends the scan with an
\* error.  A rune outside ASCII, and the vertical tab, is written by its
\* code point.
IsBlank(c) ==
    c \in {" ", "\t", "\r", "\f", "U+000B", "U+0085", "U+00A0", "U+1680",
           "U+2000", "U+2001", "U+2002", "U+2003", "U+2004", "U+2005",
           "U+2006", "U+2007", "U+2008", "U+2009", "U+200A", "U+2028",
           "U+2029", "U+202F", "U+205F", "U+3000"}

RECURSIVE SkipSpace(_)
SkipSpace(str) ==
    IF str # <<>> /\ IsBlank(Head(str)) THEN SkipSpace(Tail(str)) ELSE str

\* The longest prefix of decimal digits of str.
RECURSIVE DigitPrefix(_)
DigitPrefix(str) ==
    IF str = <<>> \/ ~IsDigit(Head(str)) THEN <<>>
    ELSE <<Head(str)>> \o DigitPrefix(Tail(str))

\* A Go int (64 bits) read from an OID is the record of its sign and of its
\* magnitude in four limbs; neg is FALSE for zero.
Int64Value(neg, mag) == [neg |-> neg /\ mag # ZeroU64, mag |-> mag]

\* The int whose value is n, for n of a magnitude below 2^31.
Int64Of(n) ==
    LET a == IF n < 0 THEN 0 - n ELSE n
    IN  Int64Value(n < 0, Limbs(a % 65536, a \div 65536, 0, 0))

\* 4294967295, the largest sub-identifier of an OID.
MaxSubIdentifier == Int64Value(FALSE, Limbs(65535, 65535, 0, 0))

MaxSubIdentifierText == <<"4", "2", "9", "4", "9", "6", "7", "2", "9", "5">>

\* The magnitude is below 2^31, and its value.
IsSmall(mag) == mag[4] = 0 /\ mag[3] = 0 /\ mag[2] < 32768
SmallValue(mag) == mag[2] * 65536 + mag[1]

\* u \div d and u % d for four limbs u and 0 < d < 2^15, limb by limb from
\* the highest.
DivSmall(u, d) ==
    LET r4 == u[4] % d
        c3 == r4 * 65536 + u[3]
        c2 == (c3 % d) * 65536 + u[2]
        c1 == (c2 % d) * 65536 + u[1]
    IN  [quot |-> Limbs(c1 \div d, c2 \div d, c3 \div d, u[4] \div d),
         rem |-> c1 % d]

\* fmt.Sprintf("%d", index) of an int.
RECURSIVE WideToChars(_)
WideToChars(mag) ==
    LET d == DivSmall(mag, 10)
    IN  (IF d.quot = ZeroU64 THEN <<>> ELSE WideToChars(d.quot))
            \o <<Digits[d.rem + 1]>>

Int64ToChars(index) ==
    (IF index.neg THEN <<"-">> ELSE <<>>)
        \o (IF IsSmall(index.mag) THEN IntToChars(SmallValue(index.mag))
            ELSE WideToChars(index.mag))

\* strconv.ParseInt(tok, 10, 64) of a sign and digits: the range error, for
\* a magnitude above 2^63 - 1 (2^63 with a minus sign).
OutOfInt64(un, neg) ==
    \/ ~un.ok
    \/ un.val[4] > 32768
    \/ un.val[4] = 32768 /\ ~(neg /\ un.val = Limbs(0, 0, 0, 32768))

ParseIntFails(digits, neg) == OutOfInt64(ParseUint(digits), neg)

\* fmt.Sscanf(str, "%d", &index): leading blanks are skipped, then an
\* optional sign and the digits are read; it fails when no digit follows or
\* when the number is out of the int64 range; input after the number is left
\* unread.
ScanInt(str) ==
    LET in     == SkipSpace(str)
        signed == in # <<>> /\ Head(in) \in {"-", "+"}
        neg    == signed /\ Head(in) = "-"
        digits == DigitPrefix(IF signed THEN Tail(in) ELSE in)
        un     == ParseUint(digits)
    IN  IF digits = <<>> \/ OutOfInt64(un, neg)
        THEN [ok |-> FALSE, n |-> Int64Of(0)]
        ELSE [ok |-> TRUE, n |-> Int64Value(neg, un.val)]

\* extractLastOIDIndex
extractLastOIDIndex(oid, baseOID) ==
    LET o == TrimPrefix(oid, <<".">>)
        b == TrimPrefix(baseOID, <<".">>)
        suffix == TrimPrefix(o, b \o <<".">>)
    IN  IF suffix = o THEN Int64Of(-1)
        ELSE LET scan == ScanInt(LastPart(suffix))
             IN  IF scan.ok THEN scan.n ELSE Int64Of(-1)

\* A PDU value is tagged with its Go type.
IntPDU(name, n) == [name |-> name, kind |-> "int", value |-> n]
TicksPDU(name, u) == [name |-> name, kind |-> "uint32", value |-> u]
OctetsPDU(name, str) == [name |-> name, kind |-> "bytes", value |-> str]

\* A uint32 is kept as its two 16-bit halves, hi * 65536 + lo.
U32(hi, lo) == [hi |-> hi, lo |-> lo]

\* uint32(v) of a Go int: the value modulo 2^32.
IntToU32(n) ==
    IF n >= 0 THEN U32(n \div 65536, n % 65536)
    ELSE U32(65535 - ((-n - 1) \div 65536), 65535 - ((-n - 1) % 65536))

\* pduToInt: the integer kinds are converted, any other value gives 0.
pduToInt(pdu) ==
    IF pdu.kind \in {"int", "uint", "uint64", "int64"} THEN pdu.value
    ELSE IF pdu.kind = "uint32"
    THEN pdu.value.hi * 65536 + pdu.value.lo
    ELSE 0

\* Mutant of pduToUint32: the value is narrowed to its low 16 bits.
pduToUint32_Low16(pdu) ==
    IF pdu.kind = "uint32" THEN U32(0, pdu.value.lo)
    ELSE IF pdu.kind \in {"uint", "int"} THEN U32(0, IntToU32(pdu.value).lo)
    ELSE U32(0, 0)

\* pduToUint32: uint32 as it is, uint and int converted to uint32, any other
\* value gives 0.
pduToUint32(pdu) ==
    IF pdu.kind = "uint32" THEN pdu.value
    ELSE IF pdu.kind \in {"uint", "int"} THEN IntToU32(pdu.value)
    ELSE U32(0, 0)

\* int64(u) / d for a uint32 u and 0 < d <= 100, by long division over the
\* halves.
DivU32(u, d) ==
    (u.hi \div d) * 65536 + ((u.hi % d) * 65536 + u.lo) \div d

NoErr == ""

(***************************************************************************)
(* ZTEOLTClient.GetPONPortMetrics                                          *)
(***************************************************************************)
MaxPortIndex == 2         \* the agent's port table has MaxPortIndex rows

PONColumns == {"OIDZTEPONPortAdminStatus", "OIDZTEPONPortOperStatus",
               "OIDZTEPONPortTxPower", "OIDZTEPONPortRxPower",
               "OIDZTEPONPortONTCount"}

\* The key of walkOIDs for a column.
PONBase(col) ==
    CASE col = "OIDZTEPONPortAdminStatus" -> OIDZTEPONPortAdminStatus
      [] col = "OIDZTEPONPortOperStatus" -> OIDZTEPONPortOperStatus
      [] col = "OIDZTEPONPortTxPower" -> OIDZTEPONPortTxPower
      [] col = "OIDZTEPONPortRxPower" -> OIDZTEPONPortRxPower
      [] OTHER -> OIDZTEPONPortONTCount

\* The agent's table: the raw integer of a column in the row idx.
PONRaw(col, idx) ==
    CASE col = "OIDZTEPONPortAdminStatus" -> 1
      [] col = "OIDZTEPONPortOperStatus" -> idx
      [] col = "OIDZTEPONPortTxPower" -> 24 + idx
      [] col = "OIDZTEPONPortRxPower" -> (0 - 181) + idx
      [] OTHER -> 31 + idx

snmpPowerScale == 10

\* Mutant of PowerDBm: the raw value is not divided by the scale.
PowerDBm_Unscaled(raw) == raw * 1000

\* float64(raw) / snmpPowerScale, in thousandths of a dBm.
PowerDBm(raw) == (raw * 1000) \div snmpPowerScale

NewPort(index) ==
    [PortIndex |-> index, AdminStatus |-> 0, OperStatus |-> 0,
     TxPowerDBm |-> 0, RxPowerDBm |-> 0, ONTCount |-> 0]

\* The setter of walkOIDs for a column.
PONSetter(col, pdu, port) ==
    CASE col = "OIDZTEPONPortAdminStatus" ->
            [port EXCEPT !.AdminStatus = pduToInt(pdu)]
      [] col = "OIDZTEPONPortOperStatus" ->
            [port EXCEPT !.OperStatus = pduToInt(pdu)]
      [] col = "OIDZTEPONPortTxPower" ->
            [port EXCEPT !.TxPowerDBm = PowerDBm(pduToInt(pdu))]
      [] col = "OIDZTEPONPortRxPower" ->
            [port EXCEPT !.RxPowerDBm = PowerDBm(pduToInt(pdu))]
      [] OTHER ->
            [port EXCEPT !.ONTCount = pduToInt(pdu)]

\* Mutant of PONCallback: the setter is applied to a fresh record, so what
\* earlier walks stored for the index is lost.
PONCallback_Fresh(ports, col, pdu) ==
    LET index == extractLastOIDIndex(pdu.name, PONBase(col))
    IN  IF index.neg THEN ports
        ELSE [i \in DOMAIN ports \cup {index} |->
                 IF i = index THEN PONSetter(col, pdu, NewPort(index))
                 ELSE ports[i]]

\* The Walk callback of GetPONPortMetrics for one PDU.
PONCallback(ports, col, pdu) ==
    LET index == extractLastOIDIndex(pdu.name, PONBase(col))
    IN  IF index.neg THEN ports
        ELSE LET cur == IF index \in DOMAIN ports THEN ports[index]
                        ELSE NewPort(index)
             IN  [i \in DOMAIN ports \cup {index} |->
                     IF i = index THEN PONSetter(col, pdu, cur) ELSE ports[i]]

\* BulkWalk calls the callback once per PDU, in the order of the response;
\* the map the callback leaves is complete before the next PDU is handled.
RECURSIVE PONWalkRows(_, _, _)
PONWalkRows(ports, col, pdus) ==
    IF pdus = <<>> THEN ports
    ELSE LET next == PONCallback(ports, col, Head(pdus))
         IN  IF DOMAIN next = {} THEN PONWalkRows(<<>>, col, Tail(pdus))
             ELSE PONWalkRows(next, col, Tail(pdus))

\* The port index of the agent's row i: the rows before the last have the
\* indexes 1, 2, ...; the last has 4294967295, the largest sub-identifier.
PortIndexOfRow(i) ==
    IF i = MaxPortIndex THEN MaxSubIdentifier ELSE Int64Of(i)

\* The PDUs an agent returns for a column: the rows in present, in table
\* order, named with or without a leading dot; a test double may add a PDU
\* that is not below the column.
RECURSIVE RowsOf(_, _, _, _)
RowsOf(col, present, dotted, from) ==
    IF from > MaxPortIndex THEN <<>>
    ELSE (IF from \in present
          THEN << IntPDU((IF dotted THEN <<".">> ELSE <<>>)
                            \o PONBase(col) \o <<".">>
                            \o (IF from = MaxPortIndex THEN MaxSubIdentifierText
                                ELSE IntToChars(from)),
                         PONRaw(col, from)) >>
          ELSE <<>>) \o RowsOf(col, present, dotted, from + 1)

ForeignPDU == IntPDU(OIDSysUpTime, 7)

\* The rows in present of a column, as the agent holds them.
TableRows(col, present) ==
    {[col |-> col, index |-> PortIndexOfRow(i), raw |-> PONRaw(col, i)] :
        i \in present}

WalkResponses(col) ==
    {[pdus |-> RowsOf(col, present, dotted, 1)
                  \o (IF foreign THEN <<ForeignPDU>> ELSE <<>>),
      rows |-> TableRows(col, present),
      err |-> e] :
        present \in SUBSET (1..MaxPortIndex), dotted \in BOOLEAN,
        foreign \in BOOLEAN, e \in {NoErr, "snmp walk timeout"}}

IndexedRows(col, pdus) ==
    Cardinality({k \in 1..Len(pdus) :
                    ~extractLastOIDIndex(pdus[k].name, PONBase(col)).neg})

PONInit ==
    /\ ponPc = "idle"
    /\ ponTodo = {}
    /\ portsByIndex = <<>>
    /\ ponResult = [isNil |-> TRUE, ports |-> {}, err |-> NoErr, oid |-> ""]
    /\ ponWalkFailed = FALSE
    /\ ponRows = 0
    /\ ponSeen = {}

\* GetPONPortMetrics is called: empty accumulator, the walkOIDs map.
PONCall ==
    /\ ponPc \in {"idle", "done"}
    /\ ponPc' = "walking"
    /\ ponTodo' = PONColumns
    /\ portsByIndex' = <<>>
    /\ ponResult' = [isNil |-> TRUE, ports |-> {}, err |-> NoErr, oid |-> ""]
    /\ ponWalkFailed' = FALSE
    /\ ponRows' = 0
    /\ ponSeen' = {}
    /\ UNCHANGED OthersPON

\* Mutant of PONWalkError: the error is dropped and the loop goes on.
PONWalkError_Ignored(col) ==
    /\ ponTodo' = ponTodo \ {col}
    /\ UNCHANGED <<ponPc, ponResult>>

\* A Walk returned an error: return nil and the wrapped error.
PONWalkError(col) ==
    /\ ponPc' = "done"
    /\ ponResult' = [isNil |-> TRUE, ports |-> {},
                     err |-> "failed to walk PON port OID", oid |-> col]
    /\ UNCHANGED ponTodo

\* One iteration of the range over walkOIDs (map order: any remaining
\* column): the Walk with its callbacks, then the error check.
PONWalk ==
    /\ ponPc = "walking"
    /\ \E col \in ponTodo : \E resp \in WalkResponses(col) :
        /\ portsByIndex' = PONWalkRows(portsByIndex, col, resp.pdus)
        /\ ponRows' = ponRows + IndexedRows(col, resp.pdus)
        /\ ponSeen' = ponSeen \cup resp.rows
        /\ IF resp.err # NoErr
           THEN /\ ponWalkFailed' = TRUE
                /\ PONWalkError(col)
           ELSE /\ ponTodo' = ponTodo \ {col}
                /\ UNCHANGED <<ponPc, ponResult, ponWalkFailed>>
    /\ UNCHANGED OthersPON

\* All columns walked: the map's records are returned as a slice.
PONReturn ==
    /\ ponPc = "walking"
    /\ ponTodo = {}
    /\ ponPc' = "done"
    /\ ponResult' = [isNil |-> FALSE,
                     ports |-> {portsByIndex[i] : i \in DOMAIN portsByIndex},
                     err |-> NoErr, oid |-> ""]
    /\ UNCHANGED <<ponTodo, portsByIndex, ponWalkFailed, ponRows, ponSeen,
                   OthersPON>>

NextPON ==
    \/ PONCall
    \/ PONWalk
    \/ PONReturn

(***************************************************************************)
(* ZTEOLTClient.GetSystemMetrics                                           *)
(***************************************************************************)
MaxCards == 2             \* rows returned by one card-table walk

CardColumns == {"OIDZTECardCPUUsage", "OIDZTECardTemperature",
                "OIDZTECardMemoryUsage", "OIDZTECardMemoryTotal"}

\* Raw card values an agent may report for a column.
CardValues(col) ==
    CASE col = "OIDZTECardCPUUsage" -> {22, 45}
      [] col = "OIDZTECardTemperature" -> {-5, 42}
      [] col = "OIDZTECardMemoryUsage" -> {0, 33, 50}
      [] OTHER -> {0, 3, 2000}

\* sysUpTime values: 0, 360000, 359999, 2^31 - 1, 2^31 and 2^32 - 1.
UpTimeTicks == {U32(0, 0), U32(5, 32320), U32(5, 32319), U32(32767, 65535),
                U32(32768, 0), U32(65535, 65535)}

\* Replies to the scalar Get: an error, the three scalars, or the
\* description only.
GetResponses ==
    {[err |-> "snmp timeout", vars |-> <<>>],
     [err |-> "snmp client not connected", vars |-> <<>>],
     [err |-> NoErr, vars |-> <<OctetsPDU(OIDSysDescr, "ZTE C320 OLT v2.0")>>]}
    \cup {[err |-> NoErr,
           vars |-> <<OctetsPDU(<<".">> \o OIDSysDescr, "ZTE C320 OLT v2.0"),
                      OctetsPDU(<<".">> \o OIDSysName, "OLT-SUDIRMAN-01"),
                      TicksPDU(<<".">> \o OIDSysUpTime, t)>>] :
             t \in UpTimeTicks}

ZeroSystemMetrics ==
    [SysDescr |-> "", SysName |-> "", UptimeSeconds |-> 0,
     CPUUsagePercent |-> 0, TemperatureCelsius |-> 0,
     MemoryUsagePercent |-> 0, MemoryTotalKB |-> 0, MemoryUsedKB |-> 0]

\* The switch over one PDU of the Get reply.
ApplyScalar(m, pdu) ==
    LET name == TrimPrefix(pdu.name, <<".">>)
    IN  CASE name = OIDSysDescr ->
               IF pdu.kind = "bytes" THEN [m EXCEPT !.SysDescr = pdu.value]
               ELSE m
          [] name = OIDSysName ->
               IF pdu.kind = "bytes" THEN [m EXCEPT !.SysName = pdu.value]
               ELSE m
          [] name = OIDSysUpTime ->
               [m EXCEPT !.UptimeSeconds = DivU32(pduToUint32(pdu), 100)]
          [] OTHER -> m

RECURSIVE ApplyScalars(_, _)
ApplyScalars(m, pdus) ==
    IF pdus = <<>> THEN m
    ELSE ApplyScalars(ApplyScalar(m, Head(pdus)), Tail(pdus))

\* The update function of walkOIDs for a column, for one PDU.
CardUpdate(col, m, pdu) ==
    CASE col = "OIDZTECardCPUUsage" ->
            IF pduToInt(pdu) > m.CPUUsagePercent
            THEN [m EXCEPT !.CPUUsagePercent = pduToInt(pdu)] ELSE m
      [] col = "OIDZTECardTemperature" ->
            IF pduToInt(pdu) > m.TemperatureCelsius
            THEN [m EXCEPT !.TemperatureCelsius = pduToInt(pdu)] ELSE m
      [] col = "OIDZTECardMemoryUsage" ->
            IF pduToInt(pdu) > m.MemoryUsagePercent
            THEN [m EXCEPT !.MemoryUsagePercent = pduToInt(pdu)] ELSE m
      [] OTHER ->
            IF pduToInt(pdu) * 1024 > m.MemoryTotalKB
            THEN [m EXCEPT !.MemoryTotalKB = pduToInt(pdu) * 1024] ELSE m

RECURSIVE CardWalkRows(_, _, _)
CardWalkRows(m, col, pdus) ==
    IF pdus = <<>> THEN m
    ELSE CardWalkRows(CardUpdate(col, m, Head(pdus)), col, Tail(pdus))

\* Mutant of WithMemoryUsed: the percentage is not divided by 100.
WithMemoryUsed_NoPercent(m) ==
    IF m.MemoryTotalKB > 0 /\ m.MemoryUsagePercent > 0
    THEN [m EXCEPT !.MemoryUsedKB = m.MemoryTotalKB * m.MemoryUsagePercent]
    ELSE m

\* The memory computation before the return.
WithMemoryUsed(m) ==
    IF m.MemoryTotalKB > 0 /\ m.MemoryUsagePercent > 0
    THEN [m EXCEPT !.MemoryUsedKB =
                       (m.MemoryTotalKB * m.MemoryUsagePercent) \div 100]
    ELSE m

CardRowSeqs(col) ==
    UNION {[1..n -> {IntPDU(<<>>, v) : v \in CardValues(col)}] : n \in 0..MaxCards}

CardResponses(col) ==
    {[pdus |-> rows, err |-> e] :
        rows \in CardRowSeqs(col), e \in {NoErr, "snmp walk timeout"}}

\* The greatest raw value among the rows of one walk.
RECURSIVE RawMax(_)
RawMax(pdus) ==
    IF Len(pdus) = 1 THEN pdus[1].value
    ELSE LET rest == RawMax(Tail(pdus))
         IN  IF pdus[1].value > rest THEN pdus[1].value ELSE rest

NoRows == [any |-> FALSE, max |-> 0]
RowsSeen(pdus) == IF pdus = <<>> THEN NoRows
                  ELSE [any |-> TRUE, max |-> RawMax(pdus)]

\* The TimeTicks value that a Get reply carries for sysUpTime.
NoTicks == [any |-> FALSE, ticks |-> U32(0, 0)]
TicksOf(resp) ==
    LET at == {k \in 1..Len(resp.vars) :
                  TrimPrefix(resp.vars[k].name, <<".">>) = OIDSysUpTime}
    IN  IF at = {} THEN NoTicks
        ELSE [any |-> TRUE, ticks |-> resp.vars[CHOOSE k \in at : TRUE].value]

\* mapSystemMetrics: the response of the OLT system endpoint.
mapSystemMetrics(ip, m) ==
    [IPAddress |-> ip, SysDescr |-> m.SysDescr, SysName |-> m.SysName,
     UptimeSeconds |-> m.UptimeSeconds,
     CPUUsagePercent |-> m.CPUUsagePercent,
     MemoryTotalKB |-> m.MemoryTotalKB, MemoryUsedKB |-> m.MemoryUsedKB,
     MemoryUsagePercent |-> m.MemoryUsagePercent,
     TemperatureCelsius |-> m.TemperatureCelsius]

NilSysResult == [isNil |-> TRUE, metrics |-> ZeroSystemMetrics,
                 err |-> NoErr, cause |-> NoErr]

SysInit ==
    /\ sysPc = "idle"
    /\ sysTodo = {}
    /\ sysMetrics = ZeroSystemMetrics
    /\ sysResult = NilSysResult
    /\ sysGetErr = NoErr
    /\ sysWalkFailed = FALSE
    /\ sysWalks = 0
    /\ sysSeen = [col \in CardColumns |-> NoRows]
    /\ sysTicks = NoTicks

\* Mutant of SysGetError: the Get error is dropped and the walks go on.
SysGetError_Continue(resp) ==
    /\ sysPc' = "walking"
    /\ sysTodo' = CardColumns
    /\ sysResult' = NilSysResult

\* The Get returned an error: return nil and the wrapped error.
SysGetError(resp) ==
    /\ sysPc' = "done"
    /\ sysTodo' = {}
    /\ sysResult' = [isNil |-> TRUE, metrics |-> ZeroSystemMetrics,
                     err |-> "failed to get system metrics",
                     cause |-> resp.err]

\* GetSystemMetrics is called: the scalar Get and its decoding.
SysCall ==
    /\ sysPc \in {"idle", "done"}
    /\ sysWalks' = 0
    /\ sysWalkFailed' = FALSE
    /\ sysSeen' = [col \in CardColumns |-> NoRows]
    /\ \E resp \in GetResponses :
        IF resp.err # NoErr
        THEN /\ sysGetErr' = resp.err
             /\ sysMetrics' = ZeroSystemMetrics
             /\ sysTicks' = NoTicks
             /\ SysGetError(resp)
        ELSE /\ sysGetErr' = NoErr
             /\ sysTicks' = TicksOf(resp)
             /\ sysMetrics' = ApplyScalars(ZeroSystemMetrics, resp.vars)
             /\ sysPc' = "walking"
             /\ sysTodo' = CardColumns
             /\ sysResult' = NilSysResult
    /\ UNCHANGED OthersSys

\* One iteration of the range over walkOIDs (map order: any remaining
\* column): the Walk with its callbacks; its error is not looked at.
SysWalk ==
    /\ sysPc = "walking"
    /\ \E col \in sysTodo : \E resp \in CardResponses(col) :
        /\ sysMetrics' = CardWalkRows(sysMetrics, col, resp.pdus)
        /\ sysWalkFailed' = (sysWalkFailed \/ resp.err # NoErr)
        /\ sysSeen' = [sysSeen EXCEPT ![col] = RowsSeen(resp.pdus)]
        /\ sysTodo' = sysTodo \ {col}
    /\ sysWalks' = sysWalks + 1
    /\ UNCHANGED <<sysPc, sysResult, sysGetErr, sysTicks, OthersSys>>

\* All columns walked: used memory is derived and the metrics returned.
SysReturn ==
    /\ sysPc = "walking"
    /\ sysTodo = {}
    /\ sysPc' = "done"
    /\ sysMetrics' = WithMemoryUsed(sysMetrics)
    /\ sysResult' = [isNil |-> FALSE, metrics |-> WithMemoryUsed(sysMetrics),
                     err |-> NoErr, cause |-> NoErr]
    /\ UNCHANGED <<sysTodo, sysGetErr, sysWalkFailed, sysWalks, sysSeen,
                   sysTicks, OthersSys>>

NextSys ==
    \/ SysCall
    \/ SysWalk
    \/ SysReturn

(***************************************************************************)
(* ZTE OLT SNMP client: GetONTMetrics                                      *)
(***************************************************************************)
MaxOntPorts == 2          \* PON ports of the agent that carry an ONT

OIDZTEONTOperStatus ==
    <<"1",".","3",".","6",".","1",".","4",".","1",".","3","9","0","2",".","1","0","1","5",".","3",".","1",".","1","3",".","1",".","3">>
OIDZTEONTDistance ==
    <<"1",".","3",".","6",".","1",".","4",".","1",".","3","9","0","2",".","1","0","1","5",".","3",".","1",".","1","3",".","1",".","4">>
OIDZTEONTRxPower ==
    <<"1",".","3",".","6",".","1",".","4",".","1",".","3","9","0","2",".","1","0","1","5",".","3",".","1",".","1","3",".","1",".","5">>
OIDZTEONTTxPower ==
    <<"1",".","3",".","6",".","1",".","4",".","1",".","3","9","0","2",".","1","0","1","5",".","3",".","1",".","1","3",".","1",".","6">>
OIDZTEONTSerialNumber ==
    <<"1",".","3",".","6",".","1",".","4",".","1",".","3","9","0","2",".","1","0","1","5",".","3",".","1",".","1","3",".","1",".","1">>

HexDigits == <<"0", "1", "2", "3", "4", "5", "6", "7", "8", "9",
               "A", "B", "C", "D", "E", "F">>

\* fmt.Sprintf("%X", n) for n >= 0.
RECURSIVE IntToHex(_)
IntToHex(n) ==
    IF n < 16 THEN <<HexDigits[n + 1]>>
    ELSE IntToHex(n \div 16) \o <<HexDigits[(n % 16) + 1]>>

\* fmt.Sprintf("%X", index) of an int.
RECURSIVE WideToHex(_)
WideToHex(mag) ==
    LET d == DivSmall(mag, 16)
    IN  (IF d.quot = ZeroU64 THEN <<>> ELSE WideToHex(d.quot))
            \o <<HexDigits[d.rem + 1]>>

Int64ToHex(index) ==
    (IF index.neg THEN <<"-">> ELSE <<>>)
        \o (IF IsSmall(index.mag) THEN IntToHex(SmallValue(index.mag))
            ELSE WideToHex(index.mag))

ONTColumns == {"OIDZTEONTSerialNumber", "OIDZTEONTOperStatus",
               "OIDZTEONTRxPower", "OIDZTEONTTxPower", "OIDZTEONTDistance"}

\* The key of walkOIDs for a column.
ONTBase(col) ==
    CASE col = "OIDZTEONTSerialNumber" -> OIDZTEONTSerialNumber
      [] col = "OIDZTEONTOperStatus" -> OIDZTEONTOperStatus
      [] col = "OIDZTEONTRxPower" -> OIDZTEONTRxPower
      [] col = "OIDZTEONTTxPower" -> OIDZTEONTTxPower
      [] OTHER -> OIDZTEONTDistance

\* The agent's ONT table is indexed by one packed integer: the PON port in
\* the bits above the low byte, the ONT number in the low byte.
PackedIndex(port, ontNo) == port * 256 + ontNo

\* The index of the agent's row for ONT 1 of a port: the packed index, but
\* 4294967295, the largest sub-identifier, for the last port.
OntIndexOfPort(port) ==
    IF port = MaxOntPorts THEN MaxSubIdentifier
    ELSE Int64Of(PackedIndex(port, 1))

OntIndexes == {OntIndexOfPort(port) : port \in 1..MaxOntPorts}

\* The raw integer of a column at an ONT index.
ONTRaw(col, idx) ==
    CASE col = "OIDZTEONTOperStatus" -> 1 + ((idx \div 256) % 2)
      [] col = "OIDZTEONTRxPower" -> (0 - 185) - (idx \div 256)
      [] col = "OIDZTEONTTxPower" -> 21
      [] OTHER -> 1200 + (idx \div 256)

\* Mutant of NewONT: the heuristic split of the index is kept.
NewONT_Split(index) ==
    [PONPortIndex |-> Int64Value(FALSE, <<(index.mag[1] \div 256) * 256>>
                                            \o Tail(index.mag)),
     ONTIndex |-> Int64Value(FALSE, Limbs(index.mag[1] % 256, 0, 0, 0)),
     SerialNumber |-> Int64ToHex(index), OperStatus |-> 0,
     RxPowerDBm |-> 0, TxPowerDBm |-> 0, DistanceMeters |-> 0,
     Description |-> <<"O", "N", "T", "-">> \o Int64ToChars(index)]

\* The record created for an index met for the first time: ponIdx and ontIdx
\* are both overwritten with the full index before it is built.
NewONT(index) ==
    [PONPortIndex |-> index, ONTIndex |-> index,
     SerialNumber |-> Int64ToHex(index), OperStatus |-> 0,
     RxPowerDBm |-> 0, TxPowerDBm |-> 0, DistanceMeters |-> 0,
     Description |-> <<"O", "N", "T", "-">> \o Int64ToChars(index)]

\* The setter of walkOIDs for a column; the serial-number column has none.
ONTSetter(col, pdu, ont) ==
    CASE col = "OIDZTEONTOperStatus" ->
            [ont EXCEPT !.OperStatus = pduToInt(pdu)]
      [] col = "OIDZTEONTRxPower" ->
            [ont EXCEPT !.RxPowerDBm = PowerDBm(pduToInt(pdu))]
      [] col = "OIDZTEONTTxPower" ->
            [ont EXCEPT !.TxPowerDBm = PowerDBm(pduToInt(pdu))]
      [] col = "OIDZTEONTDistance" ->
            [ont EXCEPT !.DistanceMeters = pduToInt(pdu)]
      [] OTHER -> ont

\* Mutant of ONTCallback: a record that exists already is left as it is, so
\* only the first column that meets an index writes its field.
ONTCallback_KeepFirst(onts, col, pdu, ponPortIndex) ==
    LET index == extractLastOIDIndex(pdu.name, ONTBase(col))
    IN  IF index.neg \/ Int64ToChars(index) \in DOMAIN onts THEN onts
        ELSE [k \in DOMAIN onts \cup {Int64ToChars(index)} |->
                 IF k = Int64ToChars(index)
                 THEN ONTSetter(col, pdu, NewONT(index)) ELSE onts[k]]

\* The Walk callback of GetONTMetrics for one PDU.  The branch for
\* ponPortIndex > 0 has an empty body, so the argument changes nothing.
ONTCallback(onts, col, pdu, ponPortIndex) ==
    LET index == extractLastOIDIndex(pdu.name, ONTBase(col))
    IN  IF index.neg THEN onts
        ELSE LET key == Int64ToChars(index)
                 cur == IF key \in DOMAIN onts THEN onts[key]
                        ELSE NewONT(index)
             IN  [k \in DOMAIN onts \cup {key} |->
                     IF k = key THEN ONTSetter(col, pdu, cur) ELSE onts[k]]

\* BulkWalk calls the callback once per PDU, in the order of the response;
\* the map the callback leaves is complete before the next PDU is handled.
RECURSIVE ONTWalkRows(_, _, _, _)
ONTWalkRows(onts, col, pdus, ponPortIndex) ==
    IF pdus = <<>> THEN onts
    ELSE LET next == ONTCallback(onts, col, Head(pdus), ponPortIndex)
         IN  IF DOMAIN next = {}
             THEN ONTWalkRows(<<>>, col, Tail(pdus), ponPortIndex)
             ELSE ONTWalkRows(next, col, Tail(pdus), ponPortIndex)

\* Octet strings that the serial-number column carries.
SerialValues == {"ZTEG12345678", "HWTCABCDEF01"}

\* The row of a column for ONT 1 of a port, as the agent names it.
ONTRow(col, port, serial) ==
    LET name == ONTBase(col) \o <<".">>
                    \o (IF port = MaxOntPorts THEN MaxSubIdentifierText
                        ELSE IntToChars(PackedIndex(port, 1)))
    IN  IF col = "OIDZTEONTSerialNumber" THEN OctetsPDU(name, serial)
        ELSE IntPDU(name, ONTRaw(col, PackedIndex(port, 1)))

\* The rows of the ports in present, in increasing index order.
RECURSIVE ONTRowsOf(_, _, _)
ONTRowsOf(col, present, serial) ==
    IF present = {} THEN <<>>
    ELSE LET lo == CHOOSE x \in present : \A y \in present : x <= y
         IN  <<ONTRow(col, lo, serial)>>
                 \o ONTRowsOf(col, present \ {lo}, serial)

ONTWalkResponses(col) ==
    {[pdus |-> ONTRowsOf(col, present, serial),
      indexes |-> {OntIndexOfPort(port) : port \in present},
      octets |-> IF col = "OIDZTEONTSerialNumber" /\ present # {}
                 THEN {serial} ELSE {},
      err |-> e] :
        present \in SUBSET (1..MaxOntPorts), serial \in SerialValues,
        e \in {NoErr, "snmp walk timeout"}}

\* Values of the ponPortIndex argument: 0, a port number, a packed index.
OntPortArgs == {0, MaxOntPorts, PackedIndex(1, 1)}

NilONTResult == [isNil |-> TRUE, onts |-> {}, err |-> NoErr, oid |-> ""]

NoONTRows == [indexes |-> {}, octets |-> {}]

ONTInit ==
    /\ ontPc = "idle"
    /\ ontArg = 0
    /\ ontTodo = {}
    /\ ontsByKey = <<>>
    /\ ontResult = NilONTResult
    /\ ontSeen = NoONTRows

\* GetONTMetrics is called: empty accumulator, the walkOIDs map.
ONTCall ==
    /\ ontPc \in {"idle", "done"}
    /\ ontPc' = "walking"
    /\ \E arg \in OntPortArgs : ontArg' = arg
    /\ ontTodo' = ONTColumns
    /\ ontsByKey' = <<>>
    /\ ontResult' = NilONTResult
    /\ ontSeen' = NoONTRows
    /\ UNCHANGED OthersONT

\* A Walk returned an error: return nil and the wrapped error.
ONTWalkError(col) ==
    /\ ontPc' = "done"
    /\ ontResult' = [isNil |-> TRUE, onts |-> {},
                     err |-> "failed to walk ONT OID", oid |-> col]
    /\ UNCHANGED ontTodo

\* One iteration of the range over walkOIDs (map order: any remaining
\* column): the Walk with its callbacks, then the error check.
ONTWalk ==
    /\ ontPc = "walking"
    /\ \E col \in ontTodo : \E resp \in ONTWalkResponses(col) :
        /\ ontsByKey' = ONTWalkRows(ontsByKey, col, resp.pdus, ontArg)
        /\ ontSeen' = [indexes |-> ontSeen.indexes \cup resp.indexes,
                        octets |-> ontSeen.octets \cup resp.octets]
        /\ IF resp.err # NoErr
           THEN ONTWalkError(col)
           ELSE /\ ontTodo' = ontTodo \ {col}
                /\ UNCHANGED <<ontPc, ontResult>>
    /\ UNCHANGED <<ontArg, OthersONT>>

\* All columns walked: the map's records are returned as a slice.
ONTReturn ==
    /\ ontPc = "walking"
    /\ ontTodo = {}
    /\ ontPc' = "done"
    /\ ontResult' = [isNil |-> FALSE,
                     onts |-> {ontsByKey[k] : k \in DOMAIN ontsByKey},
                     err |-> NoErr, oid |-> ""]
    /\ UNCHANGED <<ontArg, ontTodo, ontsByKey, ontSeen, OthersONT>>

NextONT ==
    \/ ONTCall
    \/ ONTWalk
    \/ ONTReturn

(***************************************************************************)
(* processTask: adapter selection for a PollTask                           *)
(***************************************************************************)
TaskDeviceIDs == {"d1", "d2"}
TaskIPs == {"10.0.0.1", "10.0.0.2"}
TaskDeviceTypes == {"router", "olt"}
TaskTimestamps == {1, 2}

PollTasks == [device_id : TaskDeviceIDs, ip_address : TaskIPs,
              device_type : TaskDeviceTypes, protocol : Protocols,
              timestamp : TaskTimestamps]

\* What the devices answer, by address.
DeviceReplies == [TaskIPs -> [fetch : FetchResults, ping : PingResults]]

\* The adapter calls processTask makes for a task, in order.
AdapterCalls(task) ==
    IF task.protocol = "mikrotik_api"
    THEN << [adapter |-> "FetchSystemResources", ip |-> task.ip_address],
            [adapter |-> "Ping", ip |-> task.ip_address] >>
    ELSE << [adapter |-> "Ping", ip |-> task.ip_address] >>

\* processTask up to the end of the adapter selection.
RunAdapters(task, replies) ==
    [calls |-> AdapterCalls(task),
     outcome |-> PollOutcome(task.protocol, replies[task.ip_address].fetch,
                             replies[task.ip_address].ping)]

DispInit ==
    /\ dispTasks = <<>>
    /\ dispReplies = <<>>
    /\ dispRuns = <<>>

\* Two tasks are processed against the same devices.
ProcessPair ==
    /\ dispTasks = <<>>
    /\ \E t1 \in PollTasks, t2 \in PollTasks, replies \in DeviceReplies :
        /\ dispTasks' = <<t1, t2>>
        /\ dispReplies' = replies
        /\ dispRuns' = <<RunAdapters(t1, replies), RunAdapters(t2, replies)>>
    /\ UNCHANGED OthersDisp

NextDisp == ProcessPair

(***************************************************************************)
(* Device registry: deviceService.RegisterDevice with concurrent callers   *)
(***************************************************************************)
MaxRegCalls == 3          \* RegisterDevice calls made to the service

RegIPs == {"10.0.0.1", "10.0.0.2"}
ErrIPExists == "device with this IP address already exists"
ErrDB == "database error"

\* deviceRepository.GetByIPAddress: the first row with the address; no device
\* (0) and an error when there is none or when the query failed.
GetByIPAddress(table, ip, dbOk) ==
    LET hits == {k \in 1..Len(table) : table[k].ip = ip}
    IN IF dbOk /\ hits # {}
       THEN [device |-> CHOOSE k \in hits : \A h \in hits : k <= h,
             err |-> NoErr]
       ELSE [device |-> 0,
             err |-> IF dbOk THEN "device not found with IP" ELSE ErrDB]

\* deviceRepository.Create: one INSERT; the devices table has no unique
\* index on ip_address, so the only failure is a database error.
Create(table, ip, dbOk) ==
    IF dbOk THEN [table |-> Append(table, [id |-> Len(table) + 1, ip |-> ip]),
                  err |-> NoErr]
    ELSE [table |-> table, err |-> ErrDB]

RegInit ==
    /\ regTable = <<>>
    /\ regCalls = <<>>

\* A caller enters RegisterDevice with a request for some address.
RegBegin ==
    /\ Len(regCalls) < MaxRegCalls
    /\ \E ip \in RegIPs :
        regCalls' = Append(regCalls, [ip |-> ip, pc |-> "lookup",
                                      err |-> NoErr, created |-> 0])
    /\ UNCHANGED <<regTable, OthersReg>>

\* RegisterDevice, first statement: `existing, _ := GetByIPAddress(...)`;
\* the error of the lookup is discarded, only existing != nil rejects.
RegLookup(c) ==
    /\ regCalls[c].pc = "lookup"
    /\ \E dbOk \in BOOLEAN :
        LET found == GetByIPAddress(regTable, regCalls[c].ip, dbOk)
        IN regCalls' = [regCalls EXCEPT
               ![c].pc = IF found.device # 0 THEN "done" ELSE "create",
               ![c].err = IF found.device # 0 THEN ErrIPExists ELSE NoErr]
    /\ UNCHANGED <<regTable, OthersReg>>

\* RegisterDevice, rest: build the device and call repo.Create.
RegCreate(c) ==
    /\ regCalls[c].pc = "create"
    /\ \E dbOk \in BOOLEAN :
        LET res == Create(regTable, regCalls[c].ip, dbOk)
        IN /\ regTable' = res.table
           /\ regCalls' = [regCalls EXCEPT
                  ![c].pc = "done",
                  ![c].err = res.err,
                  ![c].created = IF res.err = NoErr THEN Len(res.table)
                                 ELSE 0]
    /\ UNCHANGED OthersReg

NextReg ==
    \/ RegBegin
    \/ \E c \in 1..Len(regCalls) : RegLookup(c)
    \/ \E c \in 1..Len(regCalls) : RegCreate(c)

(***************************************************************************)
(* Mikrotik client (mikrotik/client.go): the uptime of GetSystemMetrics     *)
(***************************************************************************)
MaxUnit == 2              \* each of weeks, days, hours, minutes, seconds

UptimeFields == [w : 0..MaxUnit, d : 0..MaxUnit, h : 0..MaxUnit,
                 m : 0..MaxUnit, s : 0..MaxUnit]

UnitText(n, unit) == IF n = 0 THEN <<>> ELSE IntToChars(n) \o <<unit>>

Pad2(n) == IF n < 10 THEN <<"0">> \o IntToChars(n) ELSE IntToChars(n)

\* The legacy form RouterOS prints: "1w2d3h4m5s", "5m30s", "0s".
FormatLegacy(f) ==
    LET text == UnitText(f.w, "w") \o UnitText(f.d, "d") \o
                UnitText(f.h, "h") \o UnitText(f.m, "m") \o
                UnitText(f.s, "s")
    IN IF text = <<>> THEN <<"0", "s">> ELSE text

\* The API form: optional weeks and days, then HH:MM:SS ("1w3d08:00:00").
FormatAPI(f) ==
    UnitText(f.w, "w") \o UnitText(f.d, "d") \o
    Pad2(f.h) \o <<":">> \o Pad2(f.m) \o <<":">> \o Pad2(f.s)

ZeroFields == [w |-> 0, d |-> 0, h |-> 0, m |-> 0, s |-> 0]

\* The uptime strings a device may send, each with what it denotes.
UptimeInputs ==
    {[fields |-> f, text |-> FormatLegacy(f)] : f \in UptimeFields} \cup
    {[fields |-> f, text |-> FormatAPI(f)] : f \in UptimeFields} \cup
    {[fields |-> ZeroFields, text |-> <<>>]}

\* parseRouterOSUptime: the declared zero Duration is returned as it is;
\* the body holds no parsing statement.  The Duration is counted in seconds.
parseRouterOSUptime(uptime) == 0

UptimeInitWith(in) ==
    /\ upFields = in.fields
    /\ upText = in.text
    /\ upPc = "idle"
    /\ upUptime = 0

UptimeInit == UptimeInitWith([fields |-> ZeroFields, text |-> <<>>])

\* GetSystemMetrics: metrics.Uptime = int64(duration.Seconds()).
ParseUptime ==
    /\ upPc = "idle"
    /\ upUptime' = parseRouterOSUptime(upText)
    /\ upPc' = "done"
    /\ UNCHANGED <<upFields, upText, OthersUptime>>

NextUptime == ParseUptime

(***************************************************************************)
(* ZTE OLT SNMP client: Connect                                            *)
(***************************************************************************)
MaxConnects == 4          \* Connect calls made on one client

defaultCommunity == "public"

NilDevice == [isNil |-> TRUE, ID |-> "", IPAddress |-> "",
              hasCredentials |-> FALSE, SNMPCommunity |-> ""]

\* Devices handed to Connect: with no credentials loaded, with an empty
\* community and with a community of their own.
ConnectDevices ==
    {[isNil |-> FALSE, ID |-> "olt-1", IPAddress |-> "192.168.1.1",
      hasCredentials |-> FALSE, SNMPCommunity |-> ""],
     [isNil |-> FALSE, ID |-> "olt-1", IPAddress |-> "192.168.1.1",
      hasCredentials |-> TRUE, SNMPCommunity |-> ""],
     [isNil |-> FALSE, ID |-> "olt-2", IPAddress |-> "192.168.1.2",
      hasCredentials |-> TRUE, SNMPCommunity |-> "private"]}

ConnectArgs == {NilDevice} \cup ConnectDevices

\* GoSNMPClient.Connect: the error of a failed ConnectIPv4, wrapped.
SNMPConnectErr(ok) == IF ok THEN NoErr ELSE "snmp connect failed"

\* Mutant of Connect: the device is stored before the credentials are looked
\* at.
Connect_StoreFirst(cur, sessions, device, snmpOk) ==
    IF device.isNil
    THEN [device |-> cur, sessions |-> sessions,
          err |-> "device must not be nil"]
    ELSE IF ~device.hasCredentials
    THEN [device |-> device, sessions |-> sessions,
          err |-> "device credentials not loaded for device"]
    ELSE [device |-> device,
          sessions |-> Append(sessions,
              [host |-> device.IPAddress,
               community |-> IF device.SNMPCommunity = ""
                             THEN defaultCommunity
                             ELSE device.SNMPCommunity]),
          err |-> SNMPConnectErr(snmpOk)]

\* ZTEOLTClient.Connect on a client whose device is cur and whose SNMP
\* client has been asked for the sessions so far.
Connect(cur, sessions, device, snmpOk) ==
    IF device.isNil
    THEN [device |-> cur, sessions |-> sessions,
          err |-> "device must not be nil"]
    ELSE IF ~device.hasCredentials
    THEN [device |-> cur, sessions |-> sessions,
          err |-> "device credentials not loaded for device"]
    ELSE [device |-> device,
          sessions |-> Append(sessions,
              [host |-> device.IPAddress,
               community |-> IF device.SNMPCommunity = ""
                             THEN defaultCommunity
                             ELSE device.SNMPCommunity]),
          err |-> SNMPConnectErr(snmpOk)]

NoConnect == [called |-> FALSE, arg |-> NilDevice, err |-> NoErr,
              deviceBefore |-> NilDevice, sessionsBefore |-> 0, n |-> 0]

ConnInit ==
    /\ connDevice = NilDevice
    /\ connSessions = <<>>
    /\ connLast = NoConnect

\* One call of Connect with some device and some answer of the agent.  The
\* SNMP client's Connect is the last statement of Connect and the only one
\* that waits.
ConnectCall ==
    /\ connLast.n < MaxConnects
    /\ \E device \in ConnectArgs, snmpOk \in BOOLEAN :
        LET r == Connect(connDevice, connSessions, device, snmpOk)
        IN /\ connDevice' = r.device
           /\ connSessions' = r.sessions
           /\ connLast' = [called |-> TRUE, arg |-> device, err |-> r.err,
                           deviceBefore |-> connDevice,
                           sessionsBefore |-> Len(connSessions),
                           n |-> connLast.n + 1]
    /\ UNCHANGED OthersConn

\* ZTEOLTClient.SetDevice: the device is assigned as it comes, nil or
\* without credentials included, and no session is asked for.  connLast
\* describes a Connect that has just returned, so it is cleared here.
SetDevice ==
    /\ \E device \in ConnectArgs : connDevice' = device
    /\ connLast' = [NoConnect EXCEPT !.n = connLast.n]
    /\ UNCHANGED <<connSessions, OthersConn>>

NextConn == ConnectCall \/ SetDevice

(***************************************************************************)
(* Alert Engine: one rule against one Metric as a worker publishes it      *)
(***************************************************************************)
\* json.Marshal in processTask, then json.Unmarshal into
\* map[string]interface{} in the engine's callback: every JSON number
\* comes out as a float64, booleans and strings as they were.
JSONValue(val) ==
    CASE val.t \in {"int", "int64"} -> FloatV(val.v * 1000)
      [] OTHER -> val

JSONValues(values) == [k \in DOMAIN values |-> JSONValue(values[k])]

EvalRtts == {0, 20000, 100000, 150000}

\* The value maps processTask can build: ping only, or with the Mikrotik
\* resources.
WorkerValueMaps ==
    {MetricValues([rtt |-> r, success |-> s, metrics |-> m]) :
        r \in EvalRtts, s \in BOOLEAN, m \in {NoMetrics, MikrotikMetrics}}

WorkerMetrics == [device_id : AlertDevices, values : WorkerValueMaps]

Operators == {">", "<", "=", ">=", "<=", "!=", "=="}
Thresholds == {0, 1000, 35000, 100000, 500000}
RuleMetricNames == {"rtt_ms", "success", "cpu_load", "free_memory",
                    "uptime_str", "temperature"}

EvalRules ==
    {[id |-> "rule-x", device_id |-> dev, metric |-> name, op |-> op,
      threshold |-> th, description |-> "rule-x"] :
        dev \in {"", "d1"}, name \in RuleMetricNames, op \in Operators,
        th \in Thresholds}

EvalInitWith(rule, metric) ==
    /\ evRule = rule
    /\ evMetric = metric
    /\ evPc = "idle"
    /\ evSent = <<>>

EvalInit ==
    EvalInitWith(BuiltinRules[1], [device_id |-> "d1", values |-> NoMetrics])

\* The engine's callback on the payload of the worker's Metric.
EvalMetric ==
    /\ evPc = "idle"
    /\ evSent' = evaluate(<<evRule>>,
                          [device_id |-> evMetric.device_id,
                           values |-> JSONValues(evMetric.values)], 1)
    /\ evPc' = "done"
    /\ UNCHANGED <<evRule, evMetric, OthersEval>>

NextEval == EvalMetric

(***************************************************************************)
(* ZTE OLT SNMP client: extractLastOIDIndex on arbitrary strings           *)
(***************************************************************************)
MaxOidLen == 5            \* length of the oid argument

OidAlphabet == {"1", "2", ".", "x", "-", " "}

OidStrings == UNION {[1..n -> OidAlphabet] : n \in 0..MaxOidLen}

\* Longer arguments: a form feed and a no-break space before the number, a
\* sub-identifier of 2^32 - 1, and numbers at and beyond the end of int64.
OidSamples ==
    {<<"1", ".", "2", ".", "\f", "7">>,
     <<"1", ".", "2", ".", "U+00A0", "\t", "7">>,
     <<"1", ".", "2", ".", "\n", "7">>,
     <<"1", ".", "2", ".", "4", "2", "9", "4", "9", "6", "7", "2", "9", "5">>,
     <<"1", ".", "2", ".", "-", "9", "2", "2", "3", "3", "7", "2", "0", "3",
       "6", "8", "5", "4", "7", "7", "5", "8", "0", "8">>,
     <<"1", ".", "2", ".", "9", "2", "2", "3", "3", "7", "2", "0", "3", "6",
       "8", "5", "4", "7", "7", "5", "8", "0", "8">>}

OidBases == {<<"1">>, <<".", "1">>, <<"1", ".", "2">>}

OidInitWith(oid, base) ==
    /\ oidArg = oid
    /\ oidBase = base
    /\ oidPc = "idle"
    /\ oidIndex = Int64Of(0)

OidInit == OidInitWith(<<>>, <<"1">>)

\* The call index := extractLastOIDIndex(pdu.Name, baseOID).
ExtractIndex ==
    /\ oidPc = "idle"
    /\ oidIndex' = extractLastOIDIndex(oidArg, oidBase)
    /\ oidPc' = "done"
    /\ UNCHANGED <<oidArg, oidBase, OthersOid>>

NextOid == ExtractIndex

(***************************************************************************)
(* ZTE OLT SNMP client: the optical power setters on one row               *)
(***************************************************************************)
MaxRawPower == 200        \* raw power values are in -MaxRawPower..MaxRawPower

PowerColumns == {"OIDZTEPONPortTxPower", "OIDZTEPONPortRxPower",
                 "OIDZTEONTRxPower", "OIDZTEONTTxPower"}

\* The power that the record of index 1 reports after the setter of the
\* column has run on a row with the raw value.
ReportedPower(col, raw) ==
    CASE col = "OIDZTEPONPortTxPower" ->
            PONSetter(col, IntPDU(<<>>, raw), NewPort(Int64Of(1))).TxPowerDBm
      [] col = "OIDZTEPONPortRxPower" ->
            PONSetter(col, IntPDU(<<>>, raw), NewPort(Int64Of(1))).RxPowerDBm
      [] col = "OIDZTEONTRxPower" ->
            ONTSetter(col, IntPDU(<<>>, raw), NewONT(Int64Of(1))).RxPowerDBm
      [] OTHER ->
            ONTSetter(col, IntPDU(<<>>, raw), NewONT(Int64Of(1))).TxPowerDBm

PowerInitWith(col, raw) ==
    /\ powCol = col
    /\ powRaw = raw
    /\ powPc = "idle"
    /\ powValue = 0

PowerInit == PowerInitWith("OIDZTEPONPortTxPower", 0)

\* The walk callback hands the row to the setter of its column.
SetPower ==
    /\ powPc = "idle"
    /\ powValue' = ReportedPower(powCol, powRaw)
    /\ powPc' = "done"
    /\ UNCHANGED <<powCol, powRaw, OthersPower>>

NextPower == SetPower

(***************************************************************************)
(* ZTE OLT client: a whole GetPONPortMetrics, GetONTMetrics or             *)
(* GetSystemMetrics call against an agent whose answers are fixed          *)
(***************************************************************************)
MaxSweepIndex == 2        \* the agent has MaxSweepIndex rows of one sub-identifier

\* Index suffixes of the agent's rows, as dotted text: the one sub-identifier
\* 4294967295, the sub-identifiers 2..MaxSweepIndex, and two pairs whose
\* second sub-identifier is MaxSweepIndex.  A row is named by its position in
\* this list.
SweepSuffixes ==
    [k \in 1..(MaxSweepIndex + 2) |->
        IF k = 1 THEN MaxSubIdentifierText
        ELSE IF k <= MaxSweepIndex THEN IntToChars(k)
        ELSE IntToChars(k - MaxSweepIndex) \o <<".">>
                 \o IntToChars(MaxSweepIndex)]

SweepColumns(fn) ==
    CASE fn = "pon" -> PONColumns
      [] fn = "ont" -> ONTColumns
      [] OTHER -> CardColumns

\* The PDU of row k of a column.
SweepRow(fn, col, k) ==
    IF fn = "pon"
    THEN IntPDU(PONBase(col) \o <<".">> \o SweepSuffixes[k],
                PONRaw(col, k))
    ELSE IF col = "OIDZTEONTSerialNumber"
    THEN OctetsPDU(ONTBase(col) \o <<".">> \o SweepSuffixes[k],
                   "ZTEG12345678")
    ELSE IntPDU(ONTBase(col) \o <<".">> \o SweepSuffixes[k],
                ONTRaw(col, 256 * k))

\* The rows named in table, in increasing order of their names.
RECURSIVE SweepRows(_, _, _, _)
SweepRows(fn, col, table, from) ==
    IF from > MaxSweepIndex + 2 THEN <<>>
    ELSE (IF from \in table THEN <<SweepRow(fn, col, from)>> ELSE <<>>)
             \o SweepRows(fn, col, table, from + 1)

\* The rows of a card column: every value the agent may report, in
\* increasing order.
RECURSIVE CardRows(_)
CardRows(values) ==
    IF values = {} THEN <<>>
    ELSE LET lo == CHOOSE x \in values : \A y \in values : x <= y
         IN  <<IntPDU(<<>>, lo)>> \o CardRows(values \ {lo})

\* The columns in which the agent has rows: all of them, or a single one.
SweepPresence(fn) ==
    {SweepColumns(fn)} \cup {{c} : c \in SweepColumns(fn)}

\* The columns whose Walk ends with an error: none, one or two.
SweepFailing(fn) ==
    CASE fn = "pon" ->
            SUBSET {"OIDZTEPONPortTxPower", "OIDZTEPONPortAdminStatus"}
      [] fn = "ont" ->
            SUBSET {"OIDZTEONTRxPower", "OIDZTEONTSerialNumber"}
      [] OTHER ->
            SUBSET {"OIDZTECardTemperature", "OIDZTECardMemoryTotal"}

\* The answers of an agent: the rows of table in the columns of present, and
\* an error after the rows in the columns of failing.
SweepAgent(fn, table, present, failing) ==
    [col \in SweepColumns(fn) |->
        [pdus |-> IF col \notin present THEN <<>>
                  ELSE IF fn = "sys" THEN CardRows(CardValues(col))
                  ELSE SweepRows(fn, col, table, 1),
         err |-> IF col \in failing THEN "snmp walk timeout" ELSE NoErr]]

SweepAgents(fn) ==
    {SweepAgent(fn, table, present, failing) :
        table \in (IF fn = "sys" THEN {{}}
                   ELSE SUBSET (1..(MaxSweepIndex + 2))),
        present \in SweepPresence(fn), failing \in SweepFailing(fn)}

\* The orders in which a range over a map with these keys may visit them.
RECURSIVE Orders(_)
Orders(cols) ==
    IF cols = {} THEN {<<>>}
    ELSE UNION {{<<c>> \o rest : rest \in Orders(cols \ {c})} : c \in cols}

\* GetPONPortMetrics: the walks in the given order, from the accumulator
\* ports on.
RECURSIVE GetPONPortMetrics(_, _, _)
GetPONPortMetrics(ports, resp, order) ==
    IF order = <<>>
    THEN [isNil |-> FALSE, ports |-> {ports[i] : i \in DOMAIN ports},
          err |-> NoErr, oid |-> ""]
    ELSE LET col == Head(order)
         IN  IF resp[col].err # NoErr
             THEN [isNil |-> TRUE, ports |-> {},
                   err |-> "failed to walk PON port OID", oid |-> col]
             ELSE GetPONPortMetrics(PONWalkRows(ports, col, resp[col].pdus),
                                    resp, Tail(order))

\* GetONTMetrics: the walks in the given order, from the accumulator onts
\* on.
RECURSIVE GetONTMetrics(_, _, _, _)
GetONTMetrics(onts, resp, order, ponPortIndex) ==
    IF order = <<>>
    THEN [isNil |-> FALSE, onts |-> {onts[k] : k \in DOMAIN onts},
          err |-> NoErr, oid |-> ""]
    ELSE LET col == Head(order)
         IN  IF resp[col].err # NoErr
             THEN [isNil |-> TRUE, onts |-> {},
                   err |-> "failed to walk ONT OID", oid |-> col]
             ELSE GetONTMetrics(ONTWalkRows(onts, col, resp[col].pdus,
                                            ponPortIndex),
                                resp, Tail(order), ponPortIndex)

\* GetSystemMetrics after a Get that succeeded: the walks in the given
\* order, whose errors are not looked at, then the memory computation.
RECURSIVE GetSystemMetrics(_, _, _)
GetSystemMetrics(m, resp, order) ==
    IF order = <<>>
    THEN [isNil |-> FALSE, metrics |-> WithMemoryUsed(m),
          err |-> NoErr, cause |-> NoErr]
    ELSE GetSystemMetrics(CardWalkRows(m, Head(order), resp[Head(order)].pdus),
                          resp, Tail(order))

\* The call of one of the three functions with the columns visited in order.
Sweep(fn, resp, order) ==
    CASE fn = "pon" -> GetPONPortMetrics(<<>>, resp, order)
      [] fn = "ont" -> GetONTMetrics(<<>>, resp, order, 0)
      [] OTHER -> GetSystemMetrics(ZeroSystemMetrics, resp, order)

SweepInit ==
    /\ swFn = "pon"
    /\ swResp = <<>>
    /\ swOrder = <<>>
    /\ swPc = "idle"
    /\ swResult = NilSysResult

\* One call: the agent and the map iteration order are drawn.
SweepCall ==
    /\ swPc = "idle"
    /\ \E fn \in {"pon", "ont", "sys"} :
         \E resp \in SweepAgents(fn), order \in Orders(SweepColumns(fn)) :
            /\ swFn' = fn
            /\ swResp' = resp
            /\ swOrder' = order
            /\ swResult' = Sweep(fn, resp, order)
    /\ swPc' = "done"
    /\ UNCHANGED OthersSweep

NextSweep ==
    \/ SweepCall

(***************************************************************************)
(* Pipeline: one PollTask through processTask, nms.metrics and the Alert   *)
(* Engine built by NewEngine                                               *)
(***************************************************************************)
\* Ping results of the pipeline: a failure, a quick reply, a reply slower
\* than the latency threshold.
E2EPingResults == PingResults \cup {[rtt |-> 150000, ok |-> TRUE]}

NoMetric == [device_id |-> "", values |-> NoMetrics]

E2EInit ==
    /\ e2eTask = [device_id |-> "", protocol |-> ""]
    /\ e2eFetch = [metrics |-> NoMetrics, ok |-> FALSE]
    /\ e2ePing = [rtt |-> 0, ok |-> FALSE]
    /\ e2ePc = "idle"
    /\ e2eMetric = NoMetric
    /\ e2eSent = <<>>

\* processTask up to the Values map: the adapters are called and the Metric
\* is built.
E2EPoll ==
    /\ e2ePc = "idle"
    /\ \E dev \in AlertDevices, protocol \in Protocols,
          fetch \in FetchResults, ping \in E2EPingResults :
        /\ e2eTask' = [device_id |-> dev, protocol |-> protocol]
        /\ e2eFetch' = fetch
        /\ e2ePing' = ping
        /\ e2eMetric' = [device_id |-> dev,
                         values |-> MetricValues(
                                        PollOutcome(protocol, fetch, ping))]
    /\ e2ePc' = "polled"
    /\ UNCHANGED <<e2eSent, OthersE2E>>

\* processTask, the end: the Metric is published on nms.metrics; an error
\* is logged.
E2EPublish ==
    /\ e2ePc = "polled"
    /\ \E ok \in BOOLEAN : e2ePc' = IF ok THEN "published" ELSE "lost"
    /\ UNCHANGED <<e2eTask, e2eFetch, e2ePing, e2eMetric, e2eSent, OthersE2E>>

\* The engine's callback on the payload: Unmarshal, then evaluate with the
\* rules of NewEngine.
E2ECallback ==
    /\ e2ePc = "published"
    /\ e2eSent' = evaluate(BuiltinRules,
                           [device_id |-> e2eMetric.device_id,
                            values |-> JSONValues(e2eMetric.values)], 1)
    /\ e2ePc' = "handled"
    /\ UNCHANGED <<e2eTask, e2eFetch, e2ePing, e2eMetric, OthersE2E>>

NextE2E ==
    \/ E2EPoll
    \/ E2EPublish
    \/ E2ECallback

(***************************************************************************)
(* In-memory monitoring Scheduler (features/monitoring/worker.go)          *)
(***************************************************************************)
MaxMonTargets == 2        \* targets that TargetStore.GetAll returns
MaxMonTicks == 2          \* ticks of the Scheduler's ticker

MonInit ==
    /\ monPc = "select"
    /\ monTodo = 0
    /\ monTick = FALSE
    /\ monTicks = 0
    /\ monQuit = FALSE
    /\ monStopPc = "idle"
    /\ monWg = 0
    /\ monPolls = <<>>
    /\ monClosed = FALSE
    /\ monAtClose = 0

\* The process runs until the panic of the WaitGroup.
MonAlive == monStopPc # "panicked"

\* The ticker fires: ticker.C holds one tick.  ticker.Stop ends it.
MonTickerFire ==
    /\ MonAlive
    /\ monPc # "exited"
    /\ monTicks < MaxMonTicks
    /\ ~monTick
    /\ monTick' = TRUE
    /\ monTicks' = monTicks + 1
    /\ UNCHANGED <<monPc, monTodo, monQuit, monStopPc, monWg, monPolls,
                   monClosed, monAtClose, OthersMon>>

\* select takes the tick (it may even when quit is closed as well):
\* runCollection begins with store.GetAll.
MonSelectTick ==
    /\ MonAlive
    /\ monPc = "select"
    /\ monTick
    /\ monTick' = FALSE
    /\ \E n \in 0..MaxMonTargets :
        /\ monTodo' = n
        /\ monPc' = IF n = 0 THEN "select" ELSE "collect"
    /\ UNCHANGED <<monTicks, monQuit, monStopPc, monWg, monPolls, monClosed,
                   monAtClose, OthersMon>>

\* select takes the closed quit channel: ticker.Stop and return.
MonSelectQuit ==
    /\ MonAlive
    /\ monPc = "select"
    /\ monQuit
    /\ monPc' = "exited"
    /\ UNCHANGED <<monTodo, monTick, monTicks, monQuit, monStopPc, monWg,
                   monPolls, monClosed, monAtClose, OthersMon>>

\* One iteration of the loop of runCollection: wg.Add(1) and the go
\* statement that starts a PollDevice goroutine.
MonSpawn ==
    /\ MonAlive
    /\ monPc = "collect"
    /\ monWg' = monWg + 1
    /\ monPolls' = Append(monPolls, [pc |-> "polling", afterClose |-> monClosed,
                                     lateSystem |-> FALSE,
                                     lateInterfaces |-> FALSE])
    /\ monTodo' = monTodo - 1
    /\ monPc' = IF monTodo = 1 THEN "select" ELSE "collect"
    /\ UNCHANGED <<monTick, monTicks, monQuit, monStopPc, monClosed,
                   monAtClose, OthersMon>>

\* PollDevice of goroutine i, up to client.Connect: when the connection
\* fails PollDevice returns the error and writes nothing.
MonPollConnect(i) ==
    /\ MonAlive
    /\ monPolls[i].pc = "polling"
    /\ \E connected \in BOOLEAN :
        monPolls' = [monPolls EXCEPT ![i].pc =
                        IF connected THEN "system" ELSE "polled"]
    /\ UNCHANGED <<monPc, monTodo, monTick, monTicks, monQuit, monStopPc,
                   monWg, monClosed, monAtClose, OthersMon>>

\* PollDevice of goroutine i: GetSystemMetrics has answered; unless it
\* failed, writer.WriteSystemMetrics; lateSystem records a write to the
\* writer that Stop has closed.
MonPollSystem(i) ==
    /\ MonAlive
    /\ monPolls[i].pc = "system"
    /\ \E collected \in BOOLEAN :
        monPolls' = [monPolls EXCEPT
                        ![i].pc = "interfaces",
                        ![i].lateSystem = collected /\ monClosed]
    /\ UNCHANGED <<monPc, monTodo, monTick, monTicks, monQuit, monStopPc,
                   monWg, monClosed, monAtClose, OthersMon>>

\* PollDevice of goroutine i: GetInterfaceMetrics has answered; unless it
\* failed, writer.WriteInterfaceMetrics; PollDevice returns nil.
MonPollInterfaces(i) ==
    /\ MonAlive
    /\ monPolls[i].pc = "interfaces"
    /\ \E collected \in BOOLEAN :
        monPolls' = [monPolls EXCEPT
                        ![i].pc = "polled",
                        ![i].lateInterfaces = collected /\ monClosed]
    /\ UNCHANGED <<monPc, monTodo, monTick, monTicks, monQuit, monStopPc,
                   monWg, monClosed, monAtClose, OthersMon>>

\* The deferred wg.Done of goroutine i: the Done that brings the counter to
\* zero releases a blocked Wait.
MonPollDone(i) ==
    /\ MonAlive
    /\ monPolls[i].pc = "polled"
    /\ monPolls' = [monPolls EXCEPT ![i].pc = "done"]
    /\ monWg' = monWg - 1
    /\ monStopPc' = IF monStopPc = "blocked" /\ monWg = 1 THEN "released"
                    ELSE monStopPc
    /\ UNCHANGED <<monPc, monTodo, monTick, monTicks, monQuit, monClosed,
                   monAtClose, OthersMon>>

\* Stop: close(s.quit).
MonStop ==
    /\ MonAlive
    /\ monStopPc = "idle"
    /\ monQuit' = TRUE
    /\ monStopPc' = "waiting"
    /\ UNCHANGED <<monPc, monTodo, monTick, monTicks, monWg, monPolls,
                   monClosed, monAtClose, OthersMon>>

\* Stop: s.wg.Wait() is called: it returns at once when the counter is zero
\* and registers as a waiter otherwise.
MonWait ==
    /\ monStopPc = "waiting"
    /\ monStopPc' = IF monWg = 0 THEN "closing" ELSE "blocked"
    /\ UNCHANGED <<monPc, monTodo, monTick, monTicks, monQuit, monWg,
                   monPolls, monClosed, monAtClose, OthersMon>>

\* Stop: the released Wait runs again.  It does not wait a second time: it
\* returns when the counter is still zero, and panics ("sync: WaitGroup is
\* reused before previous Wait has returned") when runCollection has called
\* wg.Add meanwhile; the panic ends the process.  (An Add that falls inside
\* the releasing Done panics in Add or in Done instead, with the same end.)
MonWake ==
    /\ monStopPc = "released"
    /\ monStopPc' = IF monWg = 0 THEN "closing" ELSE "panicked"
    /\ UNCHANGED <<monPc, monTodo, monTick, monTicks, monQuit, monWg,
                   monPolls, monClosed, monAtClose, OthersMon>>

\* Stop: s.writer.Close().
MonClose ==
    /\ MonAlive
    /\ monStopPc = "closing"
    /\ monClosed' = TRUE
    /\ monAtClose' = Cardinality({i \in 1..Len(monPolls) :
                                     monPolls[i].pc # "done"})
    /\ monStopPc' = "stopped"
    /\ UNCHANGED <<monPc, monTodo, monTick, monTicks, monQuit, monWg,
                   monPolls, OthersMon>>

NextMon ==
    \/ MonTickerFire
    \/ MonSelectTick
    \/ MonSelectQuit
    \/ MonSpawn
    \/ \E i \in 1..Len(monPolls) : MonPollConnect(i)
    \/ \E i \in 1..Len(monPolls) : MonPollSystem(i)
    \/ \E i \in 1..Len(monPolls) : MonPollInterfaces(i)
    \/ \E i \in 1..Len(monPolls) : MonPollDone(i)
    \/ MonStop
    \/ MonWait
    \/ MonWake
    \/ MonClose

(***************************************************************************)
(* monitoring TargetStore (features/monitoring/store.go)                   *)
(***************************************************************************)
MaxStoreCalls == 3        \* ReplaceAll and GetAll calls in a behaviour

DeviceTarget(ip, username) == [IP |-> ip, Username |-> username]

\* The target lists of the sync requests: empty, one target, the same IP
\* twice, two IPs, and a list without the first IP.
StoreSyncs ==
    {<<>>,
     <<DeviceTarget("10.0.0.1", "admin")>>,
     <<DeviceTarget("10.0.0.1", "admin"), DeviceTarget("10.0.0.1", "ops")>>,
     <<DeviceTarget("10.0.0.1", "ops"), DeviceTarget("10.0.0.2", "admin")>>,
     <<DeviceTarget("10.0.0.2", "ops")>>}

NoTargets == [ip \in {} |-> DeviceTarget("", "")]

StoreInit ==
    /\ stTargets = NoTargets
    /\ stWriter = FALSE
    /\ stReaders = 0
    /\ stCalls = <<>>
    /\ stLast = 0

\* A handler or the Scheduler calls ReplaceAll(newTargets) or GetAll().
StoreBegin ==
    /\ Len(stCalls) < MaxStoreCalls
    /\ \/ \E newTargets \in StoreSyncs :
            stCalls' = Append(stCalls, [kind |-> "ReplaceAll", pc |-> "lock",
                                        arg |-> newTargets, idx |-> 1,
                                        todo |-> {}, result |-> {},
                                        basis |-> 0])
       \/ stCalls' = Append(stCalls, [kind |-> "GetAll", pc |-> "lock",
                                      arg |-> <<>>, idx |-> 1,
                                      todo |-> {}, result |-> {},
                                      basis |-> 0])
    /\ UNCHANGED <<stTargets, stWriter, stReaders, stLast, OthersStore>>

\* Mutant of CanRLock: the read lock is always granted.
CanRLock_Always(writer) == TRUE

\* sync.RWMutex: a read lock is granted while no writer holds the mutex.
CanRLock(writer) == ~writer

\* sync.RWMutex: the write lock is granted while nobody holds the mutex.
CanLock(writer, readers) == ~writer /\ readers = 0

\* ReplaceAll: s.mu.Lock() and the fresh map.
ReplaceLock(c) ==
    /\ stCalls[c].kind = "ReplaceAll" /\ stCalls[c].pc = "lock"
    /\ CanLock(stWriter, stReaders)
    /\ stWriter' = TRUE
    /\ stTargets' = NoTargets
    /\ stCalls' = [stCalls EXCEPT ![c].pc = "insert"]
    /\ UNCHANGED <<stReaders, stLast, OthersStore>>

\* ReplaceAll: one iteration of the loop, s.targets[t.IP] = t.
ReplaceInsert(c) ==
    /\ stCalls[c].kind = "ReplaceAll" /\ stCalls[c].pc = "insert"
    /\ stCalls[c].idx <= Len(stCalls[c].arg)
    /\ LET t == stCalls[c].arg[stCalls[c].idx]
       IN  stTargets' = [ip \in DOMAIN stTargets \cup {t.IP} |->
                            IF ip = t.IP THEN t ELSE stTargets[ip]]
    /\ stCalls' = [stCalls EXCEPT ![c].idx = @ + 1]
    /\ UNCHANGED <<stWriter, stReaders, stLast, OthersStore>>

\* ReplaceAll: the loop is over, the deferred s.mu.Unlock().
ReplaceUnlock(c) ==
    /\ stCalls[c].kind = "ReplaceAll" /\ stCalls[c].pc = "insert"
    /\ stCalls[c].idx > Len(stCalls[c].arg)
    /\ stWriter' = FALSE
    /\ stLast' = c
    /\ stCalls' = [stCalls EXCEPT ![c].pc = "done"]
    /\ UNCHANGED <<stTargets, stReaders, OthersStore>>

\* GetAll: s.mu.RLock(); the range over s.targets begins.
GetLock(c) ==
    /\ stCalls[c].kind = "GetAll" /\ stCalls[c].pc = "lock"
    /\ CanRLock(stWriter)
    /\ stReaders' = stReaders + 1
    /\ stCalls' = [stCalls EXCEPT ![c].pc = "copy",
                                  ![c].todo = DOMAIN stTargets,
                                  ![c].basis = stLast]
    /\ UNCHANGED <<stTargets, stWriter, stLast, OthersStore>>

\* GetAll: one iteration of the range over the map, in any order; an entry
\* that is gone from the map is not visited.
GetCopy(c) ==
    /\ stCalls[c].kind = "GetAll" /\ stCalls[c].pc = "copy"
    /\ \E ip \in stCalls[c].todo :
        stCalls' = [stCalls EXCEPT
                       ![c].todo = @ \ {ip},
                       ![c].result = IF ip \in DOMAIN stTargets
                                     THEN @ \cup {stTargets[ip]} ELSE @]
    /\ UNCHANGED <<stTargets, stWriter, stReaders, stLast, OthersStore>>

\* GetAll: the range is over, the deferred s.mu.RUnlock(), return.
GetUnlock(c) ==
    /\ stCalls[c].kind = "GetAll" /\ stCalls[c].pc = "copy"
    /\ stCalls[c].todo = {}
    /\ stReaders' = stReaders - 1
    /\ stCalls' = [stCalls EXCEPT ![c].pc = "done"]
    /\ UNCHANGED <<stTargets, stWriter, stLast, OthersStore>>

NextStore ==
    \/ StoreBegin
    \/ \E c \in 1..Len(stCalls) : ReplaceLock(c)
    \/ \E c \in 1..Len(stCalls) : ReplaceInsert(c)
    \/ \E c \in 1..Len(stCalls) : ReplaceUnlock(c)
    \/ \E c \in 1..Len(stCalls) : GetLock(c)
    \/ \E c \in 1..Len(stCalls) : GetCopy(c)
    \/ \E c \in 1..Len(stCalls) : GetUnlock(c)

(***************************************************************************)
(* MikrotikClient.GetSystemMetrics (worker/protocols/mikrotik/client.go)   *)
(***************************************************************************)
\* float64(used) / float64(total) * 100, total # 0: two conversions, a
\* division and a multiplication, each rounded to float64.
UsagePercent(used, total) ==
    MulFloat(DivFloat(FloatOfUint64(used), FloatOfUint64(total)), 100)

ZeroPercent == FloatZero

\* if total > 0 { used := total - free; usage = float64(used) /
\* float64(total) * 100 }: the usage stays 0 for a zero total.
Usage(total, free) ==
    IF total # ZeroU64 THEN UsagePercent(SubLimbs(total, free, 0), total)
    ELSE ZeroPercent

\* if text, ok := res[key]; ok { if v, err := ParseUint(text); err == nil
\* { field = v } }: the field keeps its zero value otherwise.
FieldOf(res, key) ==
    IF key \in DOMAIN res /\ ParseUint(res[key]).ok
    THEN ParseUint(res[key]).val
    ELSE ZeroU64

\* The memory and disk fields of the SystemMetrics that GetSystemMetrics
\* fills from the resource map.
ResourceMetrics(res) ==
    LET memoryTotal == FieldOf(res, "total-memory")
        memoryFree  == FieldOf(res, "free-memory")
        diskTotal   == FieldOf(res, "total-hdd-space")
        diskFree    == FieldOf(res, "free-hdd-space")
    IN  [MemoryTotal |-> memoryTotal, MemoryFree |-> memoryFree,
         MemoryUsage |-> Usage(memoryTotal, memoryFree),
         DiskTotal |-> diskTotal, DiskFree |-> diskFree,
         DiskUsage |-> Usage(diskTotal, diskFree)]

\* The words that the device may send for a byte count: 0, 512, 1024,
\* 4294967296 (2^32), 18446744073709551615 (2^64 - 1), 2^64 (out of range),
\* a signed number and an empty word.
MikTexts ==
    {<<"0">>, <<"5", "1", "2">>, <<"1", "0", "2", "4">>,
     <<"4", "2", "9", "4", "9", "6", "7", "2", "9", "6">>,
     <<"1", "8", "4", "4", "6", "7", "4", "4", "0", "7", "3", "7", "0", "9",
       "5", "5", "1", "6", "1", "5">>,
     <<"1", "8", "4", "4", "6", "7", "4", "4", "0", "7", "3", "7", "0", "9",
       "5", "5", "1", "6", "1", "6">>,
     <<"-", "1">>, <<>>}

AbsentWord == <<"absent">>

\* The resource map with the given words; an absent word leaves its key out.
ResourceMap(tm, fm, td, fd) ==
    LET all == [k \in {"total-memory", "free-memory", "total-hdd-space",
                       "free-hdd-space"} |->
                   CASE k = "total-memory" -> tm
                     [] k = "free-memory" -> fm
                     [] k = "total-hdd-space" -> td
                     [] OTHER -> fd]
    IN  [k \in {x \in DOMAIN all : all[x] # AbsentWord} |-> all[k]]

NoResource == [k \in {} |-> <<>>]
NoSystemMetrics == [MemoryTotal |-> ZeroU64, MemoryFree |-> ZeroU64,
              MemoryUsage |-> ZeroPercent,
              DiskTotal |-> ZeroU64, DiskFree |-> ZeroU64,
              DiskUsage |-> ZeroPercent]

MikInit ==
    /\ mikPc = "idle"
    /\ mikRes = NoResource
    /\ mikMetrics = NoSystemMetrics
    /\ mikErr = NoErr

\* GetSystemMetrics on a client that is not connected.
MikNotConnected ==
    /\ mikPc = "idle"
    /\ mikPc' = "done"
    /\ mikErr' = "not connected"
    /\ UNCHANGED <<mikRes, mikMetrics, OthersMik>>

\* m.client.Run("/system/resource/print") fails, or returns no sentence.
MikRunFails ==
    /\ mikPc = "idle"
    /\ mikPc' = "done"
    /\ \E err \in {"failed to get system resources",
                   "no system resource data returned"} : mikErr' = err
    /\ UNCHANGED <<mikRes, mikMetrics, OthersMik>>

\* m.client.Run("/system/resource/print") returns the resource sentence.
MikRun ==
    /\ mikPc = "idle"
    /\ mikPc' = "ran"
    /\ \E tm, fm \in MikTexts \cup {AbsentWord} :
        \E td, fd \in MikTexts \cup {AbsentWord} :
            mikRes' = ResourceMap(tm, fm, td, fd)
    /\ UNCHANGED <<mikMetrics, mikErr, OthersMik>>

\* The fields are parsed and the usages calculated, up to the second call
\* m.client.Run("/system/health/print").
MikCalculate ==
    /\ mikPc = "ran"
    /\ mikPc' = "health"
    /\ mikMetrics' = ResourceMetrics(mikRes)
    /\ UNCHANGED <<mikRes, mikErr, OthersMik>>

\* m.client.Run("/system/health/print") has answered: its reply sets only
\* Temperature and Voltage, its error is ignored, and the metrics are
\* returned.
MikReturn ==
    /\ mikPc = "health"
    /\ mikPc' = "done"
    /\ UNCHANGED <<mikRes, mikMetrics, mikErr, OthersMik>>

NextMik ==
    MikNotConnected \/ MikRunFails \/ MikRun \/ MikCalculate \/ MikReturn

(***************************************************************************)
(* Specifications                                                          *)
(***************************************************************************)
\* The components that a specification does not run stay as constructed.
\* The components whose inputs are drawn by their actions.
LateInit == SweepInit /\ E2EInit /\ MonInit /\ StoreInit
    /\ MikInit

RestInit == PONInit /\ SysInit /\ ONTInit /\ DispInit /\ RegInit
    /\ UptimeInit /\ ConnInit /\ EvalInit /\ OidInit /\ PowerInit
    /\ LateInit

InitSched ==
    /\ \E table \in InitialTables : SchedInitWith(table)
    /\ WorkerInit /\ AlertInit /\ RestInit
SpecSched == InitSched /\ [][NextSched]_vars

InitWorker == SchedInit /\ WorkerInit /\ AlertInit /\ RestInit
SpecWorker == InitWorker /\ [][NextWorker]_vars

InitAlert ==
    /\ SchedInit /\ WorkerInit /\ RestInit
    /\ \E rs \in RuleSets : AlertInitWith(rs)
SpecAlert == InitAlert /\ [][NextAlert]_vars

InitPON == SchedInit /\ WorkerInit /\ AlertInit /\ RestInit
SpecPON == InitPON /\ [][NextPON]_vars

InitSys == SchedInit /\ WorkerInit /\ AlertInit /\ RestInit
SpecSys == InitSys /\ [][NextSys]_vars

InitONT == SchedInit /\ WorkerInit /\ AlertInit /\ RestInit
SpecONT == InitONT /\ [][NextONT]_vars

InitDisp == SchedInit /\ WorkerInit /\ AlertInit /\ RestInit
SpecDisp == InitDisp /\ [][NextDisp]_vars

InitReg == SchedInit /\ WorkerInit /\ AlertInit /\ RestInit
SpecReg == InitReg /\ [][NextReg]_vars

InitUptime ==
    /\ SchedInit /\ WorkerInit /\ AlertInit
    /\ PONInit /\ SysInit /\ ONTInit /\ DispInit /\ RegInit /\ ConnInit
    /\ EvalInit
    /\ OidInit
    /\ PowerInit
    /\ LateInit
    /\ \E in \in UptimeInputs : UptimeInitWith(in)
SpecUptime == InitUptime /\ [][NextUptime]_vars

InitConn == SchedInit /\ WorkerInit /\ AlertInit /\ RestInit
SpecConn == InitConn /\ [][NextConn]_vars

InitEval ==
    /\ SchedInit /\ WorkerInit /\ AlertInit
    /\ PONInit /\ SysInit /\ ONTInit /\ DispInit /\ RegInit /\ ConnInit
    /\ UptimeInit
    /\ OidInit
    /\ PowerInit
    /\ LateInit
    /\ \E rule \in EvalRules, metric \in WorkerMetrics :
          EvalInitWith(rule, metric)
SpecEval == InitEval /\ [][NextEval]_vars

InitOid ==
    /\ SchedInit /\ WorkerInit /\ AlertInit
    /\ PONInit /\ SysInit /\ ONTInit /\ DispInit /\ RegInit /\ ConnInit
    /\ UptimeInit /\ EvalInit
    /\ PowerInit
    /\ LateInit
    /\ \E oid \in OidStrings \cup OidSamples, base \in OidBases :
        OidInitWith(oid, base)
SpecOid == InitOid /\ [][NextOid]_vars

InitPower ==
    /\ SchedInit /\ WorkerInit /\ AlertInit
    /\ PONInit /\ SysInit /\ ONTInit /\ DispInit /\ RegInit /\ ConnInit
    /\ UptimeInit /\ EvalInit /\ OidInit
    /\ LateInit
    /\ \E col \in PowerColumns, raw \in (0 - MaxRawPower)..MaxRawPower :
          PowerInitWith(col, raw)
SpecPower == InitPower /\ [][NextPower]_vars

InitSweep == SchedInit /\ WorkerInit /\ AlertInit /\ RestInit
SpecSweep == InitSweep /\ [][NextSweep]_vars

InitE2E == SchedInit /\ WorkerInit /\ AlertInit /\ RestInit
SpecE2E == InitE2E /\ [][NextE2E]_vars

InitMon == SchedInit /\ WorkerInit /\ AlertInit /\ RestInit
SpecMon == InitMon /\ [][NextMon]_vars

InitStore == SchedInit /\ WorkerInit /\ AlertInit /\ RestInit
SpecStore == InitStore /\ [][NextStore]_vars

InitMik == SchedInit /\ WorkerInit /\ AlertInit /\ RestInit
SpecMik == InitMik /\ [][NextMik]_vars

(***************************************************************************)
(* Claims                                                                  *)
(***************************************************************************)
ListedDevice(id) == {j \in 1..Len(listing) : listing[j].id = id}

\* C1: in every run of schedulePolls, each PollTask published on
\* nms.poll.tasks is for a device of that run's listing whose enabled flag is
\* true; no task is ever published for a device listed as disabled.
C1_NoTaskForDisabled ==
    \A k \in 1..Len(tickTasks) :
        /\ ListedDevice(tickTasks[k]) # {}
        /\ \A j \in ListedDevice(tickTasks[k]) : listing[j].enabled

\* C1 witness: a run has finished that listed a disabled device and
\* published tasks for the others.
C1_Witness ==
    /\ schedPc = "ret"
    /\ listOk
    /\ \E j \in 1..Len(listing) : ~listing[j].enabled
    /\ Len(tickTasks) >= 2

\* C2 (as claimed): when a run ends whose listing and publishes all
\* succeeded, the published device ids are exactly the enabled devices of the
\* registry, one task each.
C2_Orig ==
    (schedPc = "ret" /\ listOk /\ pubFails = 0) =>
        /\ {tickTasks[k] : k \in 1..Len(tickTasks)} = EnabledIds(listedFrom)
        /\ Len(tickTasks) = Cardinality(EnabledIds(listedFrom))

CopiesOnBus(i) == CopiesIn(MetricOf(i), metricBus)
DoneTasks == {i \in 1..Len(wTasks) : wTasks[i].pc = "done"}

C9_Orig ==
    [][stopClosed => ~(schedPc = "select" /\ schedPc' = "list")]_vars

\* C10 (as claimed): when the worker process exits after the stop signal,
\* every processTask goroutine that was started has run to its end.
C10_Orig ==
    (wExited /\ wStopClosed) => \A i \in 1..Len(wTasks) : wTasks[i].pc = "done"

\* Number of Send calls made for handled metric h and rule id r.
SendCount(h, r) ==
    Cardinality({n \in 1..Len(sent) : sent[n].metric = h /\ sent[n].rule = r})

\* The number a value stands for in a comparison (thousandths); booleans
\* count as 1.0 / 0.0, a non-numeric value has none.
IsNumeric(val) == val.t \in {"float", "int", "bool"}
NumberOf(val) == IF val.t = "int" THEN val.v * 1000
                 ELSE IF val.t = "bool" THEN val.v * 1000 ELSE val.v

\* A rule matches a metric: scope, value present, condition true.
RuleMatches(rule, m) ==
    /\ rule.device_id \in {"", m.device_id}
    /\ rule.metric \in DOMAIN m.values
    /\ IsNumeric(m.values[rule.metric])
    /\ LET x == NumberOf(m.values[rule.metric])
       IN  \/ rule.op = ">" /\ x > rule.threshold
           \/ rule.op = "<" /\ x < rule.threshold
           \/ rule.op = "=" /\ x = rule.threshold
           \/ rule.op = ">=" /\ x >= rule.threshold
           \/ rule.op = "<=" /\ x <= rule.threshold

\* C4: for every handled metric and every rule, the notifier has been called
\* exactly once for the pair when the rule matches the metric and not at all
\* otherwise; so the calls for a rule number as many as the handled metrics
\* that match it (no deduplication).
C4_OncePerMatch ==
    \A r \in 1..Len(rules) :
        /\ \A h \in 1..Len(handled) :
              SendCount(h, rules[r].id) =
                  IF RuleMatches(rules[r], handled[h]) THEN 1 ELSE 0
        /\ Cardinality({n \in 1..Len(sent) : sent[n].rule = rules[r].id}) =
              Cardinality({h \in 1..Len(handled) :
                              RuleMatches(rules[r], handled[h])})

\* C4 witness: the same violating metric was handled twice and the rule has
\* alerted twice, while a scoped rule stayed silent for the other device.
C4_Witness ==
    /\ Len(handled) = 2
    /\ handled[1] = handled[2]
    /\ \E r \in 1..Len(rules) :
          /\ SendCount(1, rules[r].id) = 1
          /\ SendCount(2, rules[r].id) = 1
    /\ \E r \in 1..Len(rules) :
          /\ rules[r].device_id \notin {"", handled[1].device_id}
          /\ SendCount(1, rules[r].id) = 0

SendsFor(h) == Cardinality({n \in 1..Len(sent) : sent[n].metric = h})
HighLatency(m) ==
    /\ "rtt_ms" \in DOMAIN m.values
    /\ m.values["rtt_ms"].t = "float"
    /\ m.values["rtt_ms"].v > 100000
DeviceDown(m) ==
    /\ "success" \in DOMAIN m.values
    /\ m.values["success"] = BoolV(FALSE)
VerifyHighLatency ==
    [k \in {"rtt_ms", "success"} |->
        IF k = "rtt_ms" THEN FloatV(150000) ELSE BoolV(TRUE)]
OnlySuccessFalse == [k \in {"success"} |-> BoolV(FALSE)]

\* C5: with the built-in rules, the number of notifications for one handled
\* metric is [rtt_ms present and > 100] + [success present and false]; a
\* metric {rtt_ms: 150.0, success: true} gets exactly one (High Latency) and
\* a metric {success: false} gets the Device Down notification.
C5_BuiltinRules ==
    rules = BuiltinRules =>
        \A h \in 1..Len(handled) :
            /\ SendsFor(h) = (IF HighLatency(handled[h]) THEN 1 ELSE 0)
                             + (IF DeviceDown(handled[h]) THEN 1 ELSE 0)
            /\ handled[h].values = VerifyHighLatency =>
                  SendsFor(h) = 1 /\ SendCount(h, "rule-1") = 1
            /\ handled[h].values = OnlySuccessFalse =>
                  SendCount(h, "rule-2") = 1

\* C5 witness: the engine with the built-in rules has handled both metrics
\* and has sent the High Latency and the Device Down notification.
C5_Witness ==
    /\ rules = BuiltinRules
    /\ Len(handled) = 2
    /\ handled[1].values = VerifyHighLatency
    /\ handled[2].values = OnlySuccessFalse
    /\ Len(sent) = 2
    /\ sent[1].rule = "rule-1" /\ sent[1].value = 150000
    /\ sent[2].rule = "rule-2" /\ sent[2].value = 0

\* C6: when a GetPONPortMetrics call has returned and one of its walks
\* returned an error, the result is nil with an error, whichever column
\* failed and whatever was accumulated before; an empty list with a nil error
\* is returned only when all five walks ran without error and the callback
\* got no row with an index.
C6_WalkErrorNoPorts ==
    ponPc = "done" =>
        /\ ponWalkFailed =>
              /\ ponResult.isNil
              /\ ponResult.ports = {}
              /\ ponResult.err = "failed to walk PON port OID"
        /\ (~ponResult.isNil /\ ponResult.err = NoErr /\ ponResult.ports = {}) =>
              /\ ponTodo = {}
              /\ ~ponWalkFailed
              /\ ponRows = 0

\* C6 witness: the fourth walk of a call failed after the earlier walks had
\* accumulated two ports, and the call returned nil with the error.
C6_Witness ==
    /\ ponPc = "done"
    /\ ponWalkFailed
    /\ Cardinality(ponTodo) = 2
    /\ Cardinality(DOMAIN portsByIndex) = 2
    /\ ponResult.isNil
    /\ ponResult.err # NoErr

\* C7 (as claimed): when a GetSystemMetrics call has returned and one of its
\* card-table walks returned an error, the result is nil with an error.
C7_Orig ==
    (sysPc = "done" /\ sysWalkFailed) =>
        /\ sysResult.isNil
        /\ sysResult.err # NoErr

\* C8: when the scalar Get of a GetSystemMetrics call fails, the call returns
\* at once a nil result and the error "failed to get system metrics" wrapping
\* the Get's error, and no Walk is issued.
C8_GetErrorAborts ==
    sysGetErr # NoErr =>
        /\ sysPc = "done"
        /\ sysWalks = 0
        /\ sysResult.isNil
        /\ sysResult.err = "failed to get system metrics"
        /\ sysResult.cause = sysGetErr

\* C8 witness: a call whose Get timed out has returned nil, with no metric
\* decoded.
C8_Witness ==
    /\ sysPc = "done"
    /\ sysGetErr = "snmp timeout"
    /\ sysResult.isNil
    /\ sysMetrics = ZeroSystemMetrics

\* C11 (as claimed): once Worker.Stop has been called, no delivered task
\* starts a processTask goroutine any more.
C11_Orig ==
    [][wStopClosed => Len(wTasks') = Len(wTasks)]_vars

\* C12: whatever the processTask goroutines started earlier are doing (slow
\* or hung), the subscription callback can take the next task and start its
\* processTask, and every goroutine that is not itself blocked can take its
\* next step up to the publish of its Metric.
C12_DispatchNotBlocked ==
    /\ (wSubscribed /\ ~wExited /\ Len(wTasks) + wDropped < MaxTasks) =>
          ENABLED DeliverTask
    /\ \A i \in 1..Len(wTasks) :
          ~wExited =>
              /\ wTasks[i].pc = "poll" => ENABLED PollDevice(i)
              /\ wTasks[i].pc = "write" => ENABLED WritePoint(i)
              /\ wTasks[i].pc = "publish" => ENABLED PublishMetric(i)

\* C12 witness: the first processTask is hung in its adapter call; the task
\* delivered after it has been processed to its end and its Metric is on the
\* bus.
C12_Witness ==
    /\ Len(wTasks) >= 2
    /\ wTasks[1].pc = "hung"
    /\ wTasks[2].pc = "done"
    /\ CopiesOnBus(2) = 1

\* C15 (as claimed): for every processed task the field names of the
\* device_poll point are the value names of the published Metric.
C15_Orig ==
    \A i \in DoneTasks :
        PointFields(wTasks[i]) = DOMAIN MetricValues(wTasks[i])

\* A mikrotik_api task whose resource fetch has returned a failure.
MikrotikFailed(i) ==
    /\ wTasks[i].protocol = "mikrotik_api"
    /\ wTasks[i].pc \in {"write", "publish", "done"}
    /\ ~wTasks[i].success

\* C16: a mikrotik_api task whose fetch failed (dial error, command error or
\* empty reply) goes on through the write and the publish like any other;
\* its Metric has success = false and the values rtt_ms and success only, and
\* is on the bus once the publish has succeeded.
C16_MikrotikFailure ==
    \A i \in 1..Len(wTasks) :
        MikrotikFailed(i) =>
            /\ DOMAIN MetricOf(i).values = {"rtt_ms", "success"}
            /\ MetricOf(i).values["success"] = BoolV(FALSE)
            /\ (wTasks[i].pc = "write" /\ ~wExited) => ENABLED WritePoint(i)
            /\ (wTasks[i].pc = "publish" /\ ~wExited) =>
                  ENABLED PublishMetric(i)
            /\ (wTasks[i].pc = "done" /\ wTasks[i].pubErrs = 0) =>
                  CopiesOnBus(i) = 1

\* C16 witness: a mikrotik_api task whose fetch failed while the ping
\* answered has finished, and its Metric is on the bus.
C16_Witness ==
    \E i \in DoneTasks :
        /\ MikrotikFailed(i)
        /\ wTasks[i].rtt > 0
        /\ CopiesOnBus(i) = 1

\* C17 (as claimed): no processTask is ever left blocked in an adapter call
\* without a deadline.
C17_Orig ==
    \A i \in 1..Len(wTasks) : wTasks[i].pc # "hung"

\* C20 (as claimed): the worker process ends only through the shutdown
\* signal; no error met after the bus connection ends it.
C20_Orig ==
    wExited => wStopClosed

\* Enabled devices among the first n entries of the current listing.
EnabledUpTo(n) == {j \in 1..n : listing[j].enabled}

\* C13: the Start loop ends only through the stop channel.  Within a run
\* every enabled device of the listing that the range loop has passed got
\* one publish attempt (a task published or a failure logged), also after a
\* failed publish; a run that ends, with a failed listing or not, goes back
\* to the select; and the next run attempts every enabled device of its own
\* listing whatever the previous run logged.
C13_FailureKeepsLoop ==
    /\ schedPc = "stopped" => stopClosed
    /\ (schedPc = "ret" /\ ~collExited) => ENABLED LoopBack
    /\ (schedPc \in {"loop", "ret"} /\ listOk) =>
          /\ listing = ListDevices(listedFrom, SchedPage, SchedPageSize)
          /\ Len(tickTasks) + pubFails =
                Cardinality(EnabledUpTo(
                    IF schedPc = "ret" THEN Len(listing) ELSE loopIdx - 1))
          /\ \A k \in 1..Len(tickTasks) :
                /\ tickTasks[k] \in EnabledIds(listing)
                /\ \A m \in 1..Len(tickTasks) :
                      tickTasks[m] = tickTasks[k] => m = k

\* C13 witness: the previous run had a failed publish; the current run has
\* ended with a failed publish for one device, tasks published for devices
\* after it, and an attempt for every enabled device of the listing.
C13_Witness ==
    /\ lastRunErr = "publish"
    /\ schedPc = "ret"
    /\ listOk
    /\ pubFails = 1
    /\ Len(tickTasks) >= 2
    /\ \E id \in EnabledIds(listing) :
          /\ \A k \in 1..Len(tickTasks) : tickTasks[k] # id
          /\ \E k \in 1..Len(tickTasks) : tickTasks[k] > id
    /\ Len(tickTasks) + pubFails = Cardinality(EnabledIds(listing))

\* The Send calls that the first n handled Metrics call for.
RECURSIVE SendsUpTo(_)
SendsUpTo(n) ==
    IF n = 0 THEN <<>>
    ELSE SendsUpTo(n - 1) \o evaluate(rules, handled[n], n)

\* C18: a payload that does not unmarshal is dropped: the Send calls made
\* are exactly those of the well-formed Metrics, each evaluated in full
\* whether or not payloads were dropped before it; and after a drop the
\* running engine is still subscribed and its callback takes the next
\* message.
C18_DropKeepsSubscription ==
    /\ sent = SendsUpTo(Len(handled))
    /\ (aDropped > 0 /\ alertPc = "waiting") => aSubscribed
    /\ (aDropped > 0 /\ alertPc = "waiting" /\ ~aExited
            /\ Len(handled) + aDropped < MaxMetrics) => ENABLED DeliverMetric

\* C18 witness: a Metric handled after a dropped payload has raised a
\* notification.
C18_Witness ==
    \E h \in 1..Len(handled) :
        /\ aDropsBefore[h] >= 1
        /\ \E n \in 1..Len(sent) : sent[n].metric = h

\* The adapters a run called, without their arguments.
AdapterNames(run) == [k \in 1..Len(run.calls) |-> run.calls[k].adapter]

\* C14: two tasks with the same protocol call the same adapters whatever
\* their other fields are, and get the same outcome when they poll the same
\* address; a mikrotik_api task calls the resource fetch and then the ping
\* and takes success and the adapter metrics from the fetch, a task with any
\* other protocol calls the ping only and takes success and RTT from it.
C14_AdapterByProtocol ==
    \A a \in 1..Len(dispTasks) :
        LET t == dispTasks[a]
            run == dispRuns[a]
            reply == dispReplies[t.ip_address]
        IN  /\ \A k \in 1..Len(run.calls) : run.calls[k].ip = t.ip_address
            /\ IF t.protocol = "mikrotik_api"
               THEN /\ AdapterNames(run) = <<"FetchSystemResources", "Ping">>
                    /\ run.outcome.success = reply.fetch.ok
                    /\ run.outcome.metrics = reply.fetch.metrics
               ELSE /\ AdapterNames(run) = <<"Ping">>
                    /\ run.outcome.success = reply.ping.ok
                    /\ run.outcome.rtt = reply.ping.rtt
                    /\ run.outcome.metrics = NoMetrics
            /\ \A b \in 1..Len(dispTasks) :
                  dispTasks[b].protocol = t.protocol =>
                      /\ AdapterNames(dispRuns[b]) = AdapterNames(run)
                      /\ dispTasks[b].ip_address = t.ip_address =>
                            dispRuns[b].outcome = run.outcome

\* C14 witness: two mikrotik_api tasks that differ in every other field have
\* both gone through the fetch and the ping; the fetch of one failed while
\* its ping answered, the fetch of the other succeeded.
C14_Witness ==
    /\ Len(dispTasks) = 2
    /\ dispTasks[1].protocol = "mikrotik_api"
    /\ dispTasks[2].protocol = "mikrotik_api"
    /\ dispTasks[1].device_id # dispTasks[2].device_id
    /\ dispTasks[1].ip_address # dispTasks[2].ip_address
    /\ dispTasks[1].device_type # dispTasks[2].device_type
    /\ dispTasks[1].timestamp # dispTasks[2].timestamp
    /\ AdapterNames(dispRuns[1]) = AdapterNames(dispRuns[2])
    /\ ~dispRuns[1].outcome.success
    /\ dispRuns[1].outcome.rtt > 0
    /\ dispRuns[2].outcome.success

\* An ONT record is on PON port p: its port field is p, or the port bits of
\* its packed index are p.
OnPort(ont, p) ==
    \/ ont.PONPortIndex = Int64Of(p)
    \/ Int64Value(ont.PONPortIndex.neg,
                  ShiftRight(ont.PONPortIndex.mag, 8)) = Int64Of(p)

\* C19 (as claimed): a GetONTMetrics call with ponPortIndex > 0 that
\* succeeds returns only ONTs on that PON port.
C19_Orig ==
    (ontPc = "done" /\ ~ontResult.isNil /\ ontArg > 0) =>
        \A ont \in ontResult.onts : OnPort(ont, ontArg)

\* C21: after any sequence of RegisterDevice calls, concurrent ones with the
\* same address included, no two devices of the registry have the same IP
\* address.
C21_Orig ==
    \A j, k \in 1..Len(regTable) :
        j # k => regTable[j].ip # regTable[k].ip

SecondsOf(f) == (((f.w * 7 + f.d) * 24 + f.h) * 60 + f.m) * 60 + f.s

\* C22: the parsed uptime is the total duration the uptime string denotes,
\* in the legacy form and in the API form, and 0 for "" and for "0s".
C22_Orig ==
    upPc = "done" => upUptime = SecondsOf(upFields)

MissingCredentials(device) == device.isNil \/ ~device.hasCredentials

\* C23: Connect with a nil device or with a device without credentials
\* returns an error, asks the SNMP client for no session and leaves the
\* client's device as it was; with credentials whose community is empty it
\* connects with the community "public".
C23_ConnectFailsFast ==
    connLast.called =>
        /\ MissingCredentials(connLast.arg) =>
            /\ connLast.err # NoErr
            /\ Len(connSessions) = connLast.sessionsBefore
            /\ connDevice = connLast.deviceBefore
        /\ (~MissingCredentials(connLast.arg)
              /\ connLast.arg.SNMPCommunity = "") =>
            /\ Len(connSessions) = connLast.sessionsBefore + 1
            /\ connSessions[Len(connSessions)] =
                   [host |-> connLast.arg.IPAddress, community |-> "public"]

\* A client connected to olt-2 was then handed a device without credentials:
\* the call failed and the client still holds olt-2.
C23_Witness ==
    /\ connLast.called
    /\ ~connLast.arg.isNil /\ ~connLast.arg.hasCredentials
    /\ connLast.err # NoErr
    /\ connDevice.ID = "olt-2"
    /\ \E k \in 1..Len(connSessions) : connSessions[k].community = "public"

ValueAbsent(rule, m) == rule.metric \notin DOMAIN m.values

\* C24: a rule whose metric name is not in the value map of a metric is
\* skipped: the notifier is not called for it, and every other rule is still
\* evaluated against that metric, so each other rule that matches has sent.
C24_AbsentValueSkipsRule ==
    \A h \in 1..Len(handled), r \in 1..Len(rules) :
        ValueAbsent(rules[r], handled[h]) =>
            /\ SendCount(h, rules[r].id) = 0
            /\ \A q \in 1..Len(rules) :
                  (q # r /\ RuleMatches(rules[q], handled[h]))
                      => SendCount(h, rules[q].id) = 1

\* A metric without rtt_ms was handled: the first rule, on rtt_ms, was
\* skipped and a rule after it has sent for the same metric.
C24_Witness ==
    \E h \in 1..Len(handled) :
        /\ ValueAbsent(rules[1], handled[h])
        /\ \E q \in 2..Len(rules) : SendCount(h, rules[q].id) = 1
        /\ SendCount(h, rules[1].id) = 0

\* The number a worker's value stands for, in thousandths: true is 1.0,
\* false is 0.0.
IsNumber(val) == val.t \in {"float", "int", "int64", "bool"}
Coerce(val) == IF val.t = "float" THEN val.v ELSE val.v * 1000

Holds(op, x, th) ==
    \/ op = ">" /\ x > th
    \/ op = "<" /\ x < th
    \/ op = "=" /\ x = th
    \/ op = ">=" /\ x >= th
    \/ op = "<=" /\ x <= th

\* C25: a rule whose scope matches and whose value is present triggers if and
\* only if the value is a number or a boolean and coerce(value) OP threshold
\* holds for its operator among >, <, =, >=, <=; whatever number the worker
\* put in the map is compared as a number, and a rule with another operator
\* never triggers.
C25_TriggerIffCondition ==
    (/\ evPc = "done"
     /\ evRule.device_id \in {"", evMetric.device_id}
     /\ evRule.metric \in DOMAIN evMetric.values)
    => LET val == evMetric.values[evRule.metric]
       IN  /\ evSent # <<>> <=>
                  /\ IsNumber(val)
                  /\ Holds(evRule.op, Coerce(val), evRule.threshold)
           /\ Len(evSent) <= 1

\* A rule on free_memory, which the worker stores as an int64, has triggered
\* on ">=", and so has a rule on success = 0 for a failed poll.
C25_Witness ==
    /\ evPc = "done"
    /\ evSent # <<>>
    /\ \/ /\ evRule.metric = "free_memory"
          /\ evRule.op = ">="
          /\ evMetric.values["free_memory"].t = "int64"
       \/ /\ evRule.metric = "success"
          /\ evRule.op = "<="
          /\ evMetric.values["success"] = BoolV(FALSE)

SysReturned == sysPc = "done" /\ ~sysResult.isNil

\* What the returned record reports for a card column, in the column's raw
\* unit (the memory total is reported in KB, 1024 per raw MB).
CardReported(col) ==
    CASE col = "OIDZTECardCPUUsage" -> sysResult.metrics.CPUUsagePercent
      [] col = "OIDZTECardTemperature" -> sysResult.metrics.TemperatureCelsius
      [] col = "OIDZTECardMemoryUsage" -> sysResult.metrics.MemoryUsagePercent
      [] OTHER -> sysResult.metrics.MemoryTotalKB

CardExpected(col) ==
    IF col = "OIDZTECardMemoryTotal" THEN 1024 * sysSeen[col].max
    ELSE sysSeen[col].max

\* C26: for each card column whose walk returned rows, the reported value is
\* the maximum of the rows' values, also when they are all zero or negative.
C26_Orig ==
    SysReturned =>
        \A col \in CardColumns :
            sysSeen[col].any => CardReported(col) = CardExpected(col)

\* C27: MemoryUsedKB is trunc(MemoryTotalKB * MemoryUsagePercent / 100) with
\* MemoryTotalKB 1024 times the greatest total; with a total of 0 or a used
\* percent of 0 it is 0 and the call returns its record without an error.
C27_MemoryUsed ==
    SysReturned =>
        LET m == sysResult.metrics
        IN  /\ sysResult.err = NoErr
            /\ sysSeen["OIDZTECardMemoryTotal"].any =>
                   m.MemoryTotalKB = 1024 * sysSeen["OIDZTECardMemoryTotal"].max
            /\ 100 * m.MemoryUsedKB <= m.MemoryTotalKB * m.MemoryUsagePercent
            /\ m.MemoryTotalKB * m.MemoryUsagePercent < 100 * (m.MemoryUsedKB + 1)
            /\ (m.MemoryTotalKB = 0 \/ m.MemoryUsagePercent = 0) =>
                   m.MemoryUsedKB = 0

\* 3 MB at 33 percent: 3072 KB * 33 / 100 = 1013.76, reported as 1013.
C27_Witness ==
    /\ SysReturned
    /\ sysResult.metrics.MemoryTotalKB = 3072
    /\ sysResult.metrics.MemoryUsagePercent = 33
    /\ sysResult.metrics.MemoryUsedKB = 1013

\* q is floor(t / 100) for the uint32 t = u.hi * 65536 + u.lo: the product
\* 100 * q, formed over 16-bit halves, lies in t - 99 .. t.
IsHundredth(u, q) ==
    LET low == 100 * (q % 65536)
        phi == 100 * (q \div 65536) + low \div 65536
        plo == low % 65536
    IN  /\ q >= 0
        /\ u.hi - phi \in {0, 1}
        /\ (u.hi - phi) * 65536 + u.lo - plo \in 0..99

\* C28: for every sysUpTime t of the 32-bit TimeTicks range the
\* uptime_seconds of the system metrics, and of the endpoint response mapped
\* from them, is floor(t / 100); 360000 gives 3600.
C28_UptimeSeconds ==
    (SysReturned /\ sysTicks.any) =>
        LET m == sysResult.metrics
        IN  /\ IsHundredth(sysTicks.ticks, m.UptimeSeconds)
            /\ mapSystemMetrics("10.0.0.5", m).UptimeSeconds = m.UptimeSeconds
            /\ sysTicks.ticks = U32(5, 32320) => m.UptimeSeconds = 3600

\* The agent reported 2^32 - 1 ticks and the call returned 42949672 seconds.
C28_Witness ==
    /\ SysReturned
    /\ sysTicks = [any |-> TRUE, ticks |-> U32(65535, 65535)]
    /\ sysResult.metrics.UptimeSeconds = 42949672

StripDot(str) == IF str # <<>> /\ str[1] = "." THEN Tail(str) ELSE str

\* What follows the last dot of str (all of str when it has no dot).
LastComponent(str) ==
    LET dots == {k \in 1..Len(str) : str[k] = "."}
    IN  IF dots = {} THEN str
        ELSE SubSeq(str, (CHOOSE k \in dots : \A j \in dots : j <= k) + 1,
                    Len(str))

\* A decimal integer: digits, with an optional sign before them.
IsInteger(str) ==
    LET body == IF str # <<>> /\ str[1] \in {"-", "+"} THEN Tail(str) ELSE str
    IN  body # <<>> /\ \A k \in 1..Len(body) : IsDigit(body[k])

\* The number that a string of digits denotes, in limbs (below 2^64).
RECURSIVE DecimalValue(_)
DecimalValue(str) ==
    IF str = <<>> THEN ZeroU64
    ELSE SubSeq(MulAdd(DecimalValue(SubSeq(str, 1, Len(str) - 1)), 10,
                       DigitVal(str[Len(str)])), 1, 4)

IntegerValue(str) ==
    IF str[1] = "-" THEN Int64Value(TRUE, DecimalValue(Tail(str)))
    ELSE IF str[1] = "+" THEN Int64Value(FALSE, DecimalValue(Tail(str)))
    ELSE Int64Value(FALSE, DecimalValue(str))

\* An integer that the result type int (64 bits) can hold.
IsInt64(str) ==
    /\ IsInteger(str)
    /\ ~ParseIntFails(IF str[1] \in {"-", "+"} THEN Tail(str) ELSE str,
                      str[1] = "-")

\* C29: with one leading dot stripped from each argument, the result is the
\* integer value of the last dot-separated component of oid when oid starts
\* with base + ".", and -1 when it does not (oid equal to base, base only a
\* prefix of a longer component) or when the last component is not an
\* integer (one that the result type can hold).
C29_Orig ==
    oidPc = "done" =>
        LET o == StripDot(oidArg)
            b == StripDot(oidBase)
            last == LastComponent(o)
        IN  oidIndex = IF HasPrefix(o, b \o <<".">>) /\ IsInt64(last)
                       THEN IntegerValue(last)
                       ELSE Int64Of(-1)

\* C30: every optical power reported for a PON port (Tx, Rx) and for an ONT
\* (Rx, Tx) is the raw integer divided by 10, for positive and negative raw
\* values; raw 25 is 2.5 dBm and raw -180 is -18.0 dBm (in thousandths:
\* 2500 and -18000).
C30_PowerIsTenth ==
    powPc = "done" =>
        /\ 10 * powValue = 1000 * powRaw
        /\ powRaw = 25 => powValue = 2500
        /\ powRaw = -180 => powValue = -18000

\* An ONT Rx row with raw -180 was set and the record reports -18.0 dBm.
C30_Witness ==
    /\ powPc = "done"
    /\ powCol = "OIDZTEONTRxPower"
    /\ powRaw = -180
    /\ powValue = -18000

\* The field of a PON port record that a column fills.
PortField(port, col) ==
    CASE col = "OIDZTEPONPortAdminStatus" -> port.AdminStatus
      [] col = "OIDZTEPONPortOperStatus" -> port.OperStatus
      [] col = "OIDZTEPONPortTxPower" -> port.TxPowerDBm
      [] col = "OIDZTEPONPortRxPower" -> port.RxPowerDBm
      [] OTHER -> port.ONTCount

\* A field holds the value of a row: the raw integer, or a tenth of it (in
\* thousandths of a dBm) for the two power columns.
HoldsRow(col, value, raw) ==
    IF col \in {"OIDZTEPONPortTxPower", "OIDZTEPONPortRxPower"}
    THEN 10 * value = 1000 * raw
    ELSE value = raw

PONSucceeded == ponPc = "done" /\ ~ponResult.isNil

\* C31: a GetPONPortMetrics call that succeeds returns exactly one record
\* for each port index that a row of any of the five columns had, the
\* record's PortIndex is that index, and each field holds the value of its
\* column's row at the index, or zero when the column had no row there.
C31_OneRecordPerPort ==
    PONSucceeded =>
        LET seen == {r.index : r \in ponSeen}
        IN  /\ {port.PortIndex : port \in ponResult.ports} = seen
            /\ Cardinality(ponResult.ports) = Cardinality(seen)
            /\ \A port \in ponResult.ports : \A col \in PONColumns :
                LET rows == {r \in ponSeen :
                                r.col = col /\ r.index = port.PortIndex}
                IN  IF rows = {} THEN PortField(port, col) = 0
                    ELSE \A r \in rows :
                            HoldsRow(col, PortField(port, col), r.raw)

\* A call returned two records: port 1 had a row in every column, port
\* 4294967295 in the ONT-count column only.
C31_Witness ==
    /\ PONSucceeded
    /\ {r.col : r \in {x \in ponSeen : x.index = Int64Of(1)}} = PONColumns
    /\ {r.col : r \in {x \in ponSeen : x.index = MaxSubIdentifier}} =
           {"OIDZTEPONPortONTCount"}
    /\ {port.PortIndex : port \in ponResult.ports} =
           {Int64Of(1), MaxSubIdentifier}
    /\ Cardinality(ponResult.ports) = 2

\* A string of upper-case hexadecimal digits, and the number it denotes, in
\* limbs.
IsHex(str) ==
    str # <<>> /\ \A k \in 1..Len(str) : \E d \in 1..16 : HexDigits[d] = str[k]

RECURSIVE HexValue(_)
HexValue(str) ==
    IF str = <<>> THEN ZeroU64
    ELSE SubSeq(MulAdd(HexValue(SubSeq(str, 1, Len(str) - 1)), 16,
                       (CHOOSE d \in 1..16 : HexDigits[d] = str[Len(str)]) - 1),
                1, 4)

ONTSucceeded == ontPc = "done" /\ ~ontResult.isNil

\* The field of an ONT record that an integer column fills.
ONTField(ont, col) ==
    CASE col = "OIDZTEONTOperStatus" -> ont.OperStatus
      [] col = "OIDZTEONTRxPower" -> ont.RxPowerDBm
      [] col = "OIDZTEONTTxPower" -> ont.TxPowerDBm
      [] OTHER -> ont.DistanceMeters

\* C32: a GetONTMetrics call that succeeds returns exactly one record for
\* each raw index that a row of any ONT column had, kept under the decimal
\* text of that integer; the record's SerialNumber is the index in
\* upper-case hexadecimal whatever the serial-number column carried, and
\* PONPortIndex and ONTIndex are both the raw index.
C32_OneRecordPerRawIndex ==
    ONTSucceeded =>
        LET seen == ontSeen.indexes
        IN  /\ {ont.ONTIndex : ont \in ontResult.onts} = seen
            /\ Cardinality(ontResult.onts) = Cardinality(seen)
            /\ {ontsByKey[key].ONTIndex : key \in DOMAIN ontsByKey} = seen
            /\ Cardinality(DOMAIN ontsByKey) = Cardinality(seen)
            /\ \A key \in DOMAIN ontsByKey :
                /\ IsInteger(key) /\ Head(key) \notin {"+", "-"}
                /\ Len(key) > 1 => Head(key) # "0"
                /\ IntegerValue(key) = ontsByKey[key].ONTIndex
            /\ \A ont \in ontResult.onts :
                /\ ont.PONPortIndex = ont.ONTIndex
                /\ IsHex(ont.SerialNumber)
                /\ Int64Value(FALSE, HexValue(ont.SerialNumber)) = ont.ONTIndex
                /\ Len(ont.SerialNumber) > 1 => Head(ont.SerialNumber) # "0"

\* A call returned the records of 257 and 4294967295 after the serial-number
\* column carried "HWTCABCDEF01" for both: the serials are "101" and
\* "FFFFFFFF".
C32_Witness ==
    /\ ONTSucceeded
    /\ ontSeen = [indexes |-> {Int64Of(257), MaxSubIdentifier},
                  octets |-> {"HWTCABCDEF01"}]
    /\ {ont.SerialNumber : ont \in ontResult.onts} =
           {<<"1", "0", "1">>, <<"F", "F", "F", "F", "F", "F", "F", "F">>}
    /\ \A ont \in ontResult.onts :
            ont.PONPortIndex \in {Int64Of(257), MaxSubIdentifier}

\* The records of a call that returned PON ports or ONTs.
SweepRecords == IF swFn = "pon" THEN swResult.ports ELSE swResult.onts

SweepBase(col) == IF swFn = "pon" THEN PONBase(col) ELSE ONTBase(col)

\* The index suffixes of the rows that the agent returned in the call: what
\* follows the column's OID and its dot in the name of each PDU.
RowSuffixes ==
    UNION {{TrimPrefix(swResp[col].pdus[k].name, SweepBase(col) \o <<".">>) :
                k \in 1..Len(swResp[col].pdus)} : col \in DOMAIN swResp}

SweepReturnedRecords ==
    swPc = "done" /\ swFn \in {"pon", "ont"} /\ ~swResult.isNil

\* C33 (as claimed): in one collection sweep, rows whose OID index suffixes
\* differ are never merged into one PON port or ONT record: the number of
\* records returned is the number of distinct row indexes the agent
\* returned.
C33_Orig ==
    SweepReturnedRecords =>
        Cardinality(SweepRecords) = Cardinality(RowSuffixes)

\* The columns of walkOIDs in the order of the source text.
SourceOrder(fn) ==
    CASE fn = "pon" ->
            <<"OIDZTEPONPortAdminStatus", "OIDZTEPONPortOperStatus",
              "OIDZTEPONPortTxPower", "OIDZTEPONPortRxPower",
              "OIDZTEPONPortONTCount">>
      [] fn = "ont" ->
            <<"OIDZTEONTSerialNumber", "OIDZTEONTOperStatus",
              "OIDZTEONTRxPower", "OIDZTEONTTxPower", "OIDZTEONTDistance">>
      [] OTHER ->
            <<"OIDZTECardCPUUsage", "OIDZTECardTemperature",
              "OIDZTECardMemoryUsage", "OIDZTECardMemoryTotal">>

\* What a call hands to its caller besides the error: nil or the records
\* with their field values.
Outcome(fn, result) ==
    [isNil |-> result.isNil,
     records |-> CASE fn = "pon" -> result.ports
                   [] fn = "ont" -> result.onts
                   [] OTHER -> {result.metrics}]

\* C37: for the same answers of the agent, GetPONPortMetrics, GetONTMetrics
\* and GetSystemMetrics hand back the same records with the same field
\* values whatever the order in which the range over walkOIDs visits the
\* columns: the outcome of every order is the outcome of the source order.
C37_OrderIndependent ==
    swPc = "done" =>
        Outcome(swFn, swResult) =
            Outcome(swFn, Sweep(swFn, swResp, SourceOrder(swFn)))

\* A GetPONPortMetrics call visited the columns from ONT count back to admin
\* status and returned a record for every row of the agent's table.
C37_Witness ==
    /\ swPc = "done"
    /\ swFn = "pon"
    /\ swOrder = <<"OIDZTEPONPortONTCount", "OIDZTEPONPortRxPower",
                   "OIDZTEPONPortTxPower", "OIDZTEPONPortOperStatus",
                   "OIDZTEPONPortAdminStatus">>
    /\ \A col \in PONColumns : Len(swResp[col].pdus) = MaxSweepIndex
    /\ ~swResult.isNil
    /\ Cardinality(swResult.ports) = MaxSweepIndex
    /\ \A port \in swResult.ports :
            port.AdminStatus # 0 /\ port.ONTCount # 0 /\ port.TxPowerDBm # 0

\* The task of the pipeline is not a Mikrotik task and its ping failed.
PingFailedTask ==
    /\ e2ePc # "idle"
    /\ e2eTask.protocol # "mikrotik_api"
    /\ ~e2ePing.ok

\* The Send calls of the engine with a subject.
E2ESends(subject) ==
    {n \in 1..Len(e2eSent) : e2eSent[n].subject = subject}

\* C34: for a task whose protocol is not mikrotik_api and whose ping fails,
\* the Metric that the Worker publishes has rtt_ms = 0 and success = false,
\* and the Alert Engine, when it handles that Metric, raises "Device Down"
\* exactly once and does not raise "High Latency".
C34_DownDetected ==
    PingFailedTask =>
        /\ {"rtt_ms", "success"} \subseteq DOMAIN e2eMetric.values
        /\ e2eMetric.values["rtt_ms"] = FloatV(0)
        /\ e2eMetric.values["success"] = BoolV(FALSE)
        /\ e2ePc = "handled" =>
            /\ Cardinality(E2ESends("Device Down")) = 1
            /\ E2ESends("High Latency (>100ms)") = {}

\* The Metric of an snmp task whose ping failed was handled by the engine,
\* which sent one notification.
C34_Witness ==
    /\ PingFailedTask
    /\ e2eTask.protocol = "snmp"
    /\ e2ePc = "handled"
    /\ Len(e2eSent) = 1
    /\ e2eSent[1].subject = "Device Down"

\* C35 (as claimed): whatever the interleaving of a tick with Stop, no
\* PollDevice goroutine is running when Stop calls writer.Close, none is
\* started afterwards, and no metric is written to the closed writer.
C35_Orig ==
    monClosed =>
        /\ monAtClose = 0
        /\ \A i \in 1..Len(monPolls) :
            /\ ~monPolls[i].afterClose
            /\ ~monPolls[i].lateSystem
            /\ ~monPolls[i].lateInterfaces

\* The target set that a sync installs: for each IP of the list, the last
\* target with that IP.
Installed(list) ==
    {list[i] : i \in {j \in 1..Len(list) :
                        \A k \in (j + 1)..Len(list) : list[k].IP # list[j].IP}}

\* The set that the store held when call c took its read lock: that of the
\* ReplaceAll completed last, or the empty initial set.
BasisOf(c) ==
    IF stCalls[c].basis = 0 THEN {}
    ELSE Installed(stCalls[stCalls[c].basis].arg)

\* C36: whatever the interleaving of ReplaceAll and GetAll calls, a GetAll
\* returns exactly the target set installed by one ReplaceAll call, the one
\* completed last when it read the store (or the empty initial set): one
\* entry per IP, the last occurrence in the synced list, and nothing of
\* earlier syncs.
C36_GetAllIsOneSync ==
    \A c \in 1..Len(stCalls) :
        (stCalls[c].kind = "GetAll" /\ stCalls[c].pc = "done") =>
            /\ stCalls[c].result = BasisOf(c)
            /\ \A t, u \in stCalls[c].result : t.IP = u.IP => t = u

\* A GetAll returned the single target of the last sync, "ops" on 10.0.0.1
\* from a list that names the IP twice, after an earlier sync of two IPs.
C36_Witness ==
    /\ Len(stCalls) = 3
    /\ stCalls[1].kind = "ReplaceAll" /\ Len(stCalls[1].arg) = 2
    /\ Cardinality(Installed(stCalls[1].arg)) = 2
    /\ stCalls[2].kind = "ReplaceAll" /\ Len(stCalls[2].arg) = 2
    /\ stCalls[3].kind = "GetAll" /\ stCalls[3].pc = "done"
    /\ stCalls[3].basis = 2
    /\ stCalls[3].result = {DeviceTarget("10.0.0.1", "ops")}

\* 100 percent as a float64.
HundredPercent == FloatOfUint64(Limbs(100, 0, 0, 0))

\* C38 (as claimed): the MemoryUsage and DiskUsage of a returned
\* SystemMetrics lie within 0..100 percent for every total and free the
\* device reports, free greater than total included, and are 0 when the
\* total is 0.
C38_Orig ==
    (mikPc = "done" /\ mikErr = NoErr) =>
        /\ ~LessFloat(HundredPercent, mikMetrics.MemoryUsage)
        /\ ~LessFloat(HundredPercent, mikMetrics.DiskUsage)
        /\ mikMetrics.MemoryTotal = ZeroU64 =>
                mikMetrics.MemoryUsage = ZeroPercent
        /\ mikMetrics.DiskTotal = ZeroU64 =>
                mikMetrics.DiskUsage = ZeroPercent

====
